---- MODULE Spec2Model ----
(***************************************************************************)
(* Model of the ingestion pipeline of the map-visualisation repository:    *)
(* FileLoader (src/src/utils/densityCalculator.ts) and the coordinate      *)
(* validator of the heatmap utilities.                                     *)
(*                                                                         *)
(* JavaScript values are modelled as tagged records so that the loose      *)
(* comparisons, truthiness tests and property reads of the source keep     *)
(* their run-time meaning (TypeScript types are erased; JSON.parse returns *)
(* `any`).                                                                 *)
(***************************************************************************)
EXTENDS Integers, Sequences, FiniteSets, TLC

VARIABLES op, input, result

\* The upload component and the application behind it: the loads the user
\* has started (each an async call of handleFiles or handleLoadFromUrl with
\* its position), the events of these loads in the order they happened, the
\* application's currentData and the upload mode selected in the page.
VARIABLES loads, events, currentData, uploadMode

callVars == <<op, input, result>>
uiVars == <<loads, events, currentData, uploadMode>>
vars == <<op, input, result, loads, events, currentData, uploadMode>>

-----------------------------------------------------------------------------
(* Bounds of the explored inputs                                           *)

\* longest list of records / features in one JSON or GeoJSON document
MaxRecords == 2

\* most lines in one delimited text
MaxLines == 3

\* most characters in one line handed to parseCSVLine on its own
MaxChars == 5

\* most loads the user starts in one behaviour, most files and URLs these
\* loads read together
MaxLoads == 2
MaxSources == 3

\* most locations handed to the density calculator in one call
MaxLocations == 2

\* longest list calculateOptimalGridSize is asked about
MaxCount == 600

-----------------------------------------------------------------------------
(* Program constants                                                       *)

LAT_LIMIT == 90
LNG_LIMIT == 180

-----------------------------------------------------------------------------
(* JavaScript scalar values.                                               *)
(*   undef          undefined (an absent property)                         *)
(*   null           null                                                   *)
(*   num  v         the finite number v                                    *)
(*   nan            NaN                                                    *)
(*   inf  v         +Infinity (v = 1) or -Infinity (v = -1)                *)
(*   str  v         a non-empty string whose numeric value is v ("45")     *)
(*   text v         a non-empty string that is not numeric ("abc")         *)
(*   empty          the empty string                                       *)
(*   object v       an object (identity v)                                 *)

Undef == [t |-> "undef", v |-> 0]
Null == [t |-> "null", v |-> 0]
NaN == [t |-> "nan", v |-> 0]
PosInf == [t |-> "inf", v |-> 1]
NegInf == [t |-> "inf", v |-> -1]
Num(n) == [t |-> "num", v |-> n]
Str(n) == [t |-> "str", v |-> n]
Text(k) == [t |-> "text", v |-> k]
Empty == [t |-> "empty", v |-> 0]
ObjectValue(k) == [t |-> "object", v |-> k]

\* typeof x === 'number'
IsNumber(x) == x.t \in {"num", "nan", "inf"}

\* Number.isFinite(x)
IsFinite(x) == x.t = "num"

\* ToNumber(x), the coercion applied by <=, >= and isNaN
ToNumber(x) ==
  CASE x.t = "undef" -> NaN
    [] x.t = "null" -> Num(0)
    [] x.t = "str" -> Num(x.v)
    [] x.t = "text" -> NaN
    [] x.t = "empty" -> Num(0)
    [] x.t = "object" -> NaN
    [] OTHER -> x

\* ToBoolean(x), the coercion applied by if, &&, || and ?:
Truthy(x) ==
  CASE x.t = "undef" -> FALSE
    [] x.t = "null" -> FALSE
    [] x.t = "nan" -> FALSE
    [] x.t = "num" -> x.v # 0
    [] x.t = "empty" -> FALSE
    [] OTHER -> TRUE

\* a || b and a || b || c
Or2(a, b) == IF Truthy(a) THEN a ELSE b
Or3(a, b, c) == Or2(a, Or2(b, c))

\* x >= n for a finite numeric literal n
JsGe(x, n) ==
  LET y == ToNumber(x)
  IN CASE y.t = "nan" -> FALSE
       [] y.t = "inf" -> y.v = 1
       [] OTHER -> y.v >= n

\* x <= n for a finite numeric literal n
JsLe(x, n) ==
  LET y == ToNumber(x)
  IN CASE y.t = "nan" -> FALSE
       [] y.t = "inf" -> y.v = -1
       [] OTHER -> y.v <= n

\* isNaN(x)
JsIsNaN(x) == ToNumber(x).t = "nan"

-----------------------------------------------------------------------------
(* Coordinate validation                                                   *)

\* FileLoader.validateCoordinate
validateCoordinate(coord) ==
  /\ JsGe(coord.lat, -LAT_LIMIT)
  /\ JsLe(coord.lat, LAT_LIMIT)
  /\ JsGe(coord.lng, -LNG_LIMIT)
  /\ JsLe(coord.lng, LNG_LIMIT)
  /\ ~JsIsNaN(coord.lat)
  /\ ~JsIsNaN(coord.lng)

\* validateCoordinates of the heatmap utilities
validateCoordinates(coord) ==
  /\ JsGe(coord.lat, -LAT_LIMIT)
  /\ JsLe(coord.lat, LAT_LIMIT)
  /\ JsGe(coord.lng, -LNG_LIMIT)
  /\ JsLe(coord.lng, LNG_LIMIT)

-----------------------------------------------------------------------------
(* JSON records.  A list element is an object, an array, null or a         *)
(* primitive.  An object carries the fields parseLocationObject reads and  *)
(* the `coords` field of the file-loading guide; a field that is absent    *)
(* reads as undefined.                                                     *)

\* the value under `coordinates` / `coords`: absent, null, an object with
\* lat and lng members, or an array (whose .lat and .lng read as undefined)
NoPair == [t |-> "undef", lat |-> Undef, lng |-> Undef, e0 |-> Undef, e1 |-> Undef]
NullPair == [t |-> "null", lat |-> Undef, lng |-> Undef, e0 |-> Undef, e1 |-> Undef]
PairObj(la, ln) == [t |-> "obj", lat |-> la, lng |-> ln, e0 |-> Undef, e1 |-> Undef]
PairArr(first, second) ==
  [t |-> "arr", lat |-> Undef, lng |-> Undef, e0 |-> first, e1 |-> second]

\* ToBoolean of such a value: objects and arrays are truthy
PairTruthy(p) == p.t \in {"obj", "arr"}

Obj(c, la, ln, la2, ln2, co, i) ==
  [kind |-> "obj", coordinates |-> c, lat |-> la, lng |-> ln, latitude |-> la2,
   longitude |-> ln2, coords |-> co, id |-> i, elems |-> <<>>,
   name |-> Undef, title |-> Undef, intensity |-> Undef, weight |-> Undef,
   value |-> Undef, metadata |-> Undef, properties |-> Undef]

\* the same object with the descriptive fields given
Described(item, n, ti, int, w, v, m, p) ==
  [item EXCEPT !.name = n, !.title = ti, !.intensity = int, !.weight = w,
               !.value = v, !.metadata = m, !.properties = p]

Arr(es) ==
  [kind |-> "arr", coordinates |-> NoPair, lat |-> Undef, lng |-> Undef,
   latitude |-> Undef, longitude |-> Undef, coords |-> NoPair, id |-> Undef,
   elems |-> es,
   name |-> Undef, title |-> Undef, intensity |-> Undef, weight |-> Undef,
   value |-> Undef, metadata |-> Undef, properties |-> Undef]

NullItem ==
  [kind |-> "null", coordinates |-> NoPair, lat |-> Undef, lng |-> Undef,
   latitude |-> Undef, longitude |-> Undef, coords |-> NoPair, id |-> Undef,
   elems |-> <<>>,
   name |-> Undef, title |-> Undef, intensity |-> Undef, weight |-> Undef,
   value |-> Undef, metadata |-> Undef, properties |-> Undef]

PrimItem ==
  [kind |-> "prim", coordinates |-> NoPair, lat |-> Undef, lng |-> Undef,
   latitude |-> Undef, longitude |-> Undef, coords |-> NoPair, id |-> Undef,
   elems |-> <<>>,
   name |-> Undef, title |-> Undef, intensity |-> Undef, weight |-> Undef,
   value |-> Undef, metadata |-> Undef, properties |-> Undef]

\* item[k] for an array item (0-based), undefined past the end
Elem(item, k) == IF k + 1 <= Len(item.elems) THEN item.elems[k + 1] ELSE Undef

-----------------------------------------------------------------------------
(* Results.  An error entry is its label ("Row", "Feature" or "" for a     *)
(* top-level error), its 1-based number, its message and the values the    *)
(* message template interpolates after it.                                 *)

\* a Location with its optional name, intensity and metadata undefined
Location(i, c) ==
  [id |-> i, name |-> Undef, coordinates |-> [lat |-> c.lat, lng |-> c.lng],
   intensity |-> Undef, metadata |-> Undef]

ErrorEntry(label, n, msg) == [label |-> label, n |-> n, msg |-> msg, shown |-> <<>>]

ShownError(label, n, msg, shown) ==
  [label |-> label, n |-> n, msg |-> msg, shown |-> shown]

Summary(total, valid, invalid) ==
  [totalRows |-> total, validLocations |-> valid, invalidRows |-> invalid]

LoadResult(locs, errs, sum) ==
  [status |-> "returned", locations |-> locs, errors |-> errs, summary |-> sum]

\* the call ended with an exception that left the function
Thrown(msg) == [status |-> "threw", msg |-> msg]

\* the call has not run yet
NoResult == [status |-> "none"]

-----------------------------------------------------------------------------
(* FileLoader.parseLocationObject                                          *)

\* CoordinateRule with the latitude/longitude test placed before the
\* lat/lng test (a changed order of the chain)
CoordinateRuleLatitudeFirst(item) ==
  CASE item.kind = "null" -> "TypeError"
    [] PairTruthy(item.coordinates) -> "a"
    [] item.latitude # Undef /\ item.longitude # Undef -> "c"
    [] item.lat # Undef /\ item.lng # Undef -> "b"
    [] item.kind = "arr" /\ Len(item.elems) >= 2 -> "d"
    [] OTHER -> "none"

\* which branch of the coordinate chain is taken: "a", "b", "c", "d", or
\* "none" (the throw of the else branch); reading a property of null raises
\* a TypeError before any branch is tested
CoordinateRule(item) ==
  CASE item.kind = "null" -> "TypeError"
    [] PairTruthy(item.coordinates) -> "a"
    [] item.lat # Undef /\ item.lng # Undef -> "b"
    [] item.latitude # Undef /\ item.longitude # Undef -> "c"
    [] item.kind = "arr" /\ Len(item.elems) >= 2 -> "d"
    [] OTHER -> "none"

\* the coordinates the taken branch assigns
ResolvedCoordinates(item) ==
  LET rule == CoordinateRule(item)
  IN CASE rule = "a" -> [lat |-> item.coordinates.lat, lng |-> item.coordinates.lng]
       [] rule = "b" -> [lat |-> item.lat, lng |-> item.lng]
       [] rule = "c" -> [lat |-> item.latitude, lng |-> item.longitude]
       [] rule = "d" -> [lat |-> Elem(item, 1), lng |-> Elem(item, 0)]
       [] OTHER -> [lat |-> Undef, lng |-> Undef]

\* the id of the returned Location: item.id || index
LocationId(item, index) == Or2(item.id, Num(index))

\* the name, intensity and metadata of the returned Location
LocationName(item) == Or2(item.name, item.title)
LocationIntensity(item) == Or3(item.intensity, item.weight, item.value)
LocationMetadata(item) == Or2(item.metadata, item.properties)

\* the values in the message of a failed record: `Invalid coordinates
\* (${lat}, ${lng})` carries the pair, the other messages carry none
CoordinatesShown(r) ==
  IF r.msg = "Invalid coordinates"
  THEN <<r.loc.coordinates.lat, r.loc.coordinates.lng>>
  ELSE <<>>

\* [ok |-> TRUE, loc] on return, [ok |-> FALSE, msg] on a throw
parseLocationObject(item, index) ==
  LET rule == CoordinateRule(item)
      coordinates == ResolvedCoordinates(item)
  IN CASE rule = "TypeError" ->
            [ok |-> FALSE, msg |-> "Cannot read properties of null",
             loc |-> Location(Undef, coordinates)]
       [] rule = "none" ->
            [ok |-> FALSE, msg |-> "Missing or invalid coordinates",
             loc |-> Location(Undef, coordinates)]
       [] ~validateCoordinate(coordinates) ->
            [ok |-> FALSE, msg |-> "Invalid coordinates",
             loc |-> Location(Undef, coordinates)]
       [] OTHER ->
            [ok |-> TRUE, msg |-> "",
             loc |-> [Location(LocationId(item, index), coordinates)
                        EXCEPT !.name = LocationName(item),
                               !.intensity = LocationIntensity(item),
                               !.metadata = LocationMetadata(item)]]

-----------------------------------------------------------------------------
(* Parsed documents.  The text handed to JSON.parse is modelled by what    *)
(* JSON.parse makes of it: a SyntaxError ("malformed"), null, a primitive, *)
(* an array, or an object with the members the parsers read.               *)

\* a member that is absent, a non-array value, or an array
NoList == [t |-> "undef", items |-> <<>>]
NonArray == [t |-> "prim", items |-> <<>>]
List(xs) == [t |-> "array", items |-> xs]

Doc(kind, items, locations, data, type, features) ==
  [kind |-> kind, items |-> items, locations |-> locations, data |-> data,
   type |-> type, features |-> features]

Malformed == Doc("malformed", <<>>, NoList, NoList, "undef", NoList)
NullDoc == Doc("null", <<>>, NoList, NoList, "undef", NoList)
PrimDoc == Doc("prim", <<>>, NoList, NoList, "undef", NoList)
ArrayDoc(xs) == Doc("array", xs, NoList, NoList, "undef", NoList)
ObjectDoc(locations, data, type, features) ==
  Doc("object", <<>>, locations, data, type, features)

-----------------------------------------------------------------------------
(* FileLoader.parseJSON                                                    *)

\* the forEach over rawLocations from 1-based position k on, with the
\* accumulated locations and errors
RECURSIVE ScanRecords(_, _, _, _)
ScanRecords(raw, k, locations, errors) ==
  IF k > Len(raw) THEN [locations |-> locations, errors |-> errors]
  ELSE LET index == k - 1
           r == parseLocationObject(raw[k], index)
       IN IF r.ok
          THEN ScanRecords(raw, k + 1, Append(locations, r.loc), errors)
          ELSE ScanRecords(raw, k + 1, locations,
                           Append(errors, ShownError("Row", index + 1, r.msg,
                                                     CoordinatesShown(r))))

\* the scan with the try/catch around the whole loop instead of around one
\* record: the first throw ends it
RECURSIVE ScanRecordsUntilThrow(_, _, _)
ScanRecordsUntilThrow(raw, k, locations) ==
  IF k > Len(raw) THEN [locations |-> locations, errors |-> <<>>]
  ELSE LET r == parseLocationObject(raw[k], k - 1)
       IN IF r.ok
          THEN ScanRecordsUntilThrow(raw, k + 1, Append(locations, r.loc))
          ELSE [locations |-> locations,
                errors |-> <<ShownError("Row", k, r.msg, CoordinatesShown(r))>>]

\* JSONResult over that scan
JSONResultStoppingAtThrow(rawLocations) ==
  LET acc == ScanRecordsUntilThrow(rawLocations, 1, <<>>)
  IN LoadResult(acc.locations, acc.errors,
                Summary(Len(rawLocations), Len(acc.locations),
                        Len(rawLocations) - Len(acc.locations)))

\* the return after the scan
JSONResult(rawLocations) ==
  LET acc == ScanRecords(rawLocations, 1, <<>>, <<>>)
  IN LoadResult(acc.locations, acc.errors,
                Summary(Len(rawLocations), Len(acc.locations),
                        Len(rawLocations) - Len(acc.locations)))

JSONStructuralFailure(msg) ==
  LoadResult(<<>>, <<ErrorEntry("", 0, msg)>>, Summary(0, 0, 1))

parseJSON(doc) ==
  CASE doc.kind = "malformed" -> JSONStructuralFailure("Invalid JSON format")
    [] doc.kind = "array" -> JSONResult(doc.items)
    [] doc.kind = "null" -> Thrown("Cannot read properties of null")
    [] doc.locations.t = "array" -> JSONResult(doc.locations.items)
    [] doc.data.t = "array" -> JSONResult(doc.data.items)
    [] OTHER -> JSONStructuralFailure("JSON must contain an array of locations")

-----------------------------------------------------------------------------
(* GeoJSON features                                                        *)

\* geometry.coordinates: absent, an array of scalars, or a truthy value
\* that is not iterable (a number, an object)
NoCoords == [t |-> "undef", elems |-> <<>>]
CoordsArr(es) == [t |-> "arr", elems |-> es]
CoordsNotIterable == [t |-> "prim", elems |-> <<>>]

\* feature.geometry: absent, null, or an object with type and coordinates
NoGeometry == [t |-> "undef", type |-> "undef", coordinates |-> NoCoords]
NullGeometry == [t |-> "null", type |-> "undef", coordinates |-> NoCoords]
Geometry(type, coordinates) == [t |-> "obj", type |-> type, coordinates |-> coordinates]

\* feature.properties: absent, null, or an object with the keys the parser
\* reads and one key it does not read (a key that is absent reads as
\* undefined)
PropertyBag(t, i) ==
  [t |-> t, id |-> i, name |-> Undef, title |-> Undef, address |-> Undef,
   description |-> Undef, alert_type |-> Undef, alertType |-> Undef,
   type |-> Undef, category |-> Undef, intensity |-> Undef, weight |-> Undef,
   value |-> Undef, processedAlertType |-> Undef, other |-> Undef]

NoProperties == PropertyBag("undef", Undef)
NullProperties == PropertyBag("null", Undef)
Properties(i) == PropertyBag("obj", i)

\* feature.properties || {}
PropertiesOrEmpty(properties) ==
  IF properties.t = "obj" THEN properties ELSE PropertyBag("obj", Undef)

\* `Point ${index + 1}` and the literal 0.5
PointName(n) == [t |-> "point", v |-> n]
Half == [t |-> "half", v |-> 0]

Feature(geometry, properties, i) ==
  [kind |-> "obj", geometry |-> geometry, properties |-> properties, id |-> i]

NullFeature ==
  [kind |-> "null", geometry |-> NoGeometry, properties |-> NoProperties, id |-> Undef]

\* the k-th element (0-based) of the destructured coordinates array
CoordElem(coordinates, k) ==
  IF k + 1 <= Len(coordinates.elems) THEN coordinates.elems[k + 1] ELSE Undef

\* `geojson-${index}`
GeoJSONId(index) == [t |-> "geojson", v |-> index]

-----------------------------------------------------------------------------
(* FileLoader.parseGeoJSON                                                 *)

\* properties.id || feature.id || `geojson-${index}`
FeatureId(feature, index) ==
  CASE Truthy(feature.properties.id) -> feature.properties.id
    [] Truthy(feature.id) -> feature.id
    [] OTHER -> GeoJSONId(index)

\* the name, the alert type, the intensity and the metadata built from the
\* properties of a Point feature
FeatureName(properties, index) ==
  Or2(properties.name,
      Or2(properties.title,
          Or3(properties.address, properties.description, PointName(index + 1))))

FeatureAlertType(properties) ==
  Or2(properties.alert_type,
      Or3(properties.alertType, properties.type, properties.category))

FeatureIntensity(properties) ==
  Or2(properties.intensity, Or3(properties.weight, properties.value, Half))

FeatureMetadata(properties) ==
  LET alertType == FeatureAlertType(properties)
  IN IF Truthy(alertType)
     THEN [properties EXCEPT !.processedAlertType = alertType]
     ELSE properties

\* the Location built for a Point feature
FeatureLocation(feature, index, coord) ==
  LET properties == PropertiesOrEmpty(feature.properties)
  IN [Location(FeatureId(feature, index), coord)
        EXCEPT !.name = FeatureName(properties, index),
               !.intensity = FeatureIntensity(properties),
               !.metadata = FeatureMetadata(properties)]

\* parseFeature destructuring the array as [lat, lng]
parseFeatureLatitudeFirst(feature, index) ==
  LET coordinates == feature.geometry.coordinates
      coord == [lat |-> CoordElem(coordinates, 0), lng |-> CoordElem(coordinates, 1)]
  IN CASE feature.kind = "null" ->
            [ok |-> FALSE, msg |-> "Cannot read properties of null",
             loc |-> Location(Undef, coord)]
       [] ~(feature.geometry.t = "obj" /\ feature.geometry.type = "Point"
            /\ coordinates.t # "undef") ->
            [ok |-> FALSE, msg |-> "Only Point geometries are supported",
             loc |-> Location(Undef, coord)]
       [] coordinates.t = "prim" ->
            [ok |-> FALSE, msg |-> "object is not iterable",
             loc |-> Location(Undef, coord)]
       [] ~validateCoordinate(coord) ->
            [ok |-> FALSE, msg |-> "Invalid coordinates",
             loc |-> Location(Undef, coord)]
       [] OTHER ->
            [ok |-> TRUE, msg |-> "",
             loc |-> FeatureLocation(feature, index, coord)]

\* parseFeature without the test of the geometry type
parseFeatureAnyGeometry(feature, index) ==
  LET coordinates == feature.geometry.coordinates
      coord == [lat |-> CoordElem(coordinates, 1), lng |-> CoordElem(coordinates, 0)]
  IN CASE feature.kind = "null" ->
            [ok |-> FALSE, msg |-> "Cannot read properties of null",
             loc |-> Location(Undef, coord)]
       [] ~(feature.geometry.t = "obj" /\ coordinates.t # "undef") ->
            [ok |-> FALSE, msg |-> "Only Point geometries are supported",
             loc |-> Location(Undef, coord)]
       [] coordinates.t = "prim" ->
            [ok |-> FALSE, msg |-> "object is not iterable",
             loc |-> Location(Undef, coord)]
       [] ~validateCoordinate(coord) ->
            [ok |-> FALSE, msg |-> "Invalid coordinates",
             loc |-> Location(Undef, coord)]
       [] OTHER ->
            [ok |-> TRUE, msg |-> "",
             loc |-> FeatureLocation(feature, index, coord)]

\* the body of the forEach callback for one feature:
\* [ok |-> TRUE, loc] when a location is pushed, [ok |-> FALSE, msg] when an
\* error is pushed (by the else branches or by the catch)
parseFeature(feature, index) ==
  LET coordinates == feature.geometry.coordinates
      coord == [lat |-> CoordElem(coordinates, 1), lng |-> CoordElem(coordinates, 0)]
  IN CASE feature.kind = "null" ->
            [ok |-> FALSE, msg |-> "Cannot read properties of null",
             loc |-> Location(Undef, coord)]
       [] ~(feature.geometry.t = "obj" /\ feature.geometry.type = "Point"
            /\ coordinates.t # "undef") ->
            [ok |-> FALSE, msg |-> "Only Point geometries are supported",
             loc |-> Location(Undef, coord)]
       [] coordinates.t = "prim" ->
            [ok |-> FALSE, msg |-> "object is not iterable",
             loc |-> Location(Undef, coord)]
       [] ~validateCoordinate(coord) ->
            [ok |-> FALSE, msg |-> "Invalid coordinates",
             loc |-> Location(Undef, coord)]
       [] OTHER ->
            [ok |-> TRUE, msg |-> "",
             loc |-> FeatureLocation(feature, index, coord)]

RECURSIVE ScanFeatures(_, _, _, _)
ScanFeatures(features, k, locations, errors) ==
  IF k > Len(features) THEN [locations |-> locations, errors |-> errors]
  ELSE LET index == k - 1
           r == parseFeature(features[k], index)
       IN IF r.ok
          THEN ScanFeatures(features, k + 1, Append(locations, r.loc), errors)
          ELSE ScanFeatures(features, k + 1, locations,
                            Append(errors, ShownError("Feature", index + 1, r.msg,
                                                      CoordinatesShown(r))))

GeoJSONResult(features) ==
  LET acc == ScanFeatures(features, 1, <<>>, <<>>)
  IN LoadResult(acc.locations, acc.errors,
                Summary(Len(features), Len(acc.locations),
                        Len(features) - Len(acc.locations)))

GeoJSONStructuralFailure(msg) ==
  LoadResult(<<>>, <<ErrorEntry("", 0, msg)>>, Summary(0, 0, 1))

parseGeoJSON(doc) ==
  CASE doc.kind = "malformed" -> GeoJSONStructuralFailure("Invalid GeoJSON format")
    [] doc.kind = "null" -> Thrown("Cannot read properties of null")
    [] doc.type # "FeatureCollection" \/ doc.features.t # "array" ->
         GeoJSONStructuralFailure("GeoJSON must be a FeatureCollection with features array")
    [] OTHER -> GeoJSONResult(doc.features.items)

-----------------------------------------------------------------------------
(* Strings of the delimited-text path.  A string is a sequence of          *)
(* characters; a run of ordinary characters ("lat", "10", "abc") is kept   *)
(* as one element, since the code treats every ordinary character alike.   *)
(* The special characters are the delimiters, the two quote characters,    *)
(* the blank and the tab.  A text is the sequence of its lines (the text   *)
(* is these lines joined by "\n").                                         *)

IsSpace(c) == c \in {" ", "\t"}
IsQuote(c) == c \in {"\"", "'"}

\* the numeric runs of the explored inputs and their values
NumericRuns == {"0", "7", "10", "20", "95", "200"}

RunValue(c) ==
  CASE c = "0" -> 0
    [] c = "7" -> 7
    [] c = "10" -> 10
    [] c = "20" -> 20
    [] c = "95" -> 95
    [] c = "200" -> 200
    [] OTHER -> 0

\* every character of s is white space (true of the empty string)
AllSpace(s) == \A k \in 1..Len(s) : IsSpace(s[k])

RECURSIVE TrimLeft(_)
TrimLeft(s) == IF s # <<>> /\ IsSpace(Head(s)) THEN TrimLeft(Tail(s)) ELSE s

RECURSIVE TrimRight(_)
TrimRight(s) ==
  IF s # <<>> /\ IsSpace(s[Len(s)]) THEN TrimRight(SubSeq(s, 1, Len(s) - 1)) ELSE s

\* String.prototype.trim on one line
Trim(s) == TrimRight(TrimLeft(s))

\* s.replace(/^["']|["']$/g, '')
StripQuotes(s) ==
  LET a == IF s # <<>> /\ IsQuote(Head(s)) THEN Tail(s) ELSE s
  IN IF a # <<>> /\ IsQuote(a[Len(a)]) THEN SubSeq(a, 1, Len(a) - 1) ELSE a

\* s.split(d) for a one-character d, from position k on with the piece cur
RECURSIVE SplitFrom(_, _, _, _)
SplitFrom(s, d, k, cur) ==
  IF k > Len(s) THEN <<cur>>
  ELSE IF s[k] = d THEN <<cur>> \o SplitFrom(s, d, k + 1, <<>>)
  ELSE SplitFrom(s, d, k + 1, Append(cur, s[k]))

Split(s, d) == SplitFrom(s, d, 1, <<>>)

\* text.trim().split('\n'): white-space lines at both ends disappear with
\* the line breaks around them, inner lines stay; a text of white space
\* only trims to "" and splits into the single line ""
RECURSIVE DropBlankHead(_)
DropBlankHead(ls) ==
  IF ls # <<>> /\ AllSpace(Head(ls)) THEN DropBlankHead(Tail(ls)) ELSE ls

RECURSIVE DropBlankTail(_)
DropBlankTail(ls) ==
  IF ls # <<>> /\ AllSpace(ls[Len(ls)])
  THEN DropBlankTail(SubSeq(ls, 1, Len(ls) - 1)) ELSE ls

TrimmedLines(text) ==
  LET ls == DropBlankTail(DropBlankHead(text))
  IN IF ls = <<>> THEN << <<>> >>
     ELSE IF Len(ls) = 1 THEN << Trim(ls[1]) >>
     ELSE << TrimLeft(ls[1]) >> \o SubSeq(ls, 2, Len(ls) - 1)
          \o << TrimRight(ls[Len(ls)]) >>

\* a value read from rowData: undefined when the column is absent
NoCell == [t |-> "undef", s |-> <<>>]
Cell(s) == [t |-> "string", s |-> s]

\* parseFloat: the leading numeric run, NaN otherwise (no input explored
\* puts two numeric runs side by side)
ParseFloat(cell) ==
  LET s == TrimLeft(cell.s)
  IN IF cell.t = "undef" \/ s = <<>> THEN NaN
     ELSE IF Head(s) \in NumericRuns THEN Num(RunValue(Head(s)))
     ELSE IF Head(s) = "Infinity" THEN PosInf
     ELSE NaN

\* a string stored in a Location field, as a scalar value
StringValue(cell) ==
  CASE cell.t = "undef" -> Undef
    [] cell.s = <<>> -> Empty
    [] Len(cell.s) = 1 /\ cell.s[1] \in NumericRuns -> Str(RunValue(cell.s[1]))
    [] OTHER -> Text(Len(cell.s))

-----------------------------------------------------------------------------
(* FileLoader.parseCSVLine                                                 *)

RECURSIVE CSVLineFrom(_, _, _, _, _, _)
CSVLineFrom(line, delimiter, i, current, inQuotes, quoteChar) ==
  IF i > Len(line) THEN << Trim(current) >>
  ELSE LET char == line[i]
       IN CASE IsQuote(char) /\ ~inQuotes ->
                 CSVLineFrom(line, delimiter, i + 1, current, TRUE, char)
            [] char = quoteChar /\ inQuotes ->
                 CSVLineFrom(line, delimiter, i + 1, current, FALSE, "")
            [] char = delimiter /\ ~inQuotes ->
                 << Trim(current) >>
                   \o CSVLineFrom(line, delimiter, i + 1, <<>>, inQuotes, quoteChar)
            [] OTHER ->
                 CSVLineFrom(line, delimiter, i + 1, Append(current, char),
                             inQuotes, quoteChar)

parseCSVLine(line, delimiter) ==
  LET values == CSVLineFrom(line, delimiter, 1, <<>>, FALSE, "")
  IN [k \in 1..Len(values) |-> StripQuotes(values[k])]

-----------------------------------------------------------------------------
(* FileLoader.parseCSVRow and FileLoader.parseCSV                          *)

\* a ColumnMapping: the column names for lat, lng and id (<<>> when the key
\* is not given); options.columnMapping may be absent altogether
Mapping(la, ln, i) == [t |-> "obj", lat |-> la, lng |-> ln, id |-> i]
NoMapping == [t |-> "undef", lat |-> <<>>, lng |-> <<>>, id |-> <<>>]

\* the mapping parseCSV falls back to
DefaultMapping == Mapping(<<"lat">>, <<"lng">>, <<"id">>)

\* FileLoadOptions: delimiter ("" when absent), hasHeader ("undef", "true"
\* or "false") and columnMapping
Options(d, h, m) == [delimiter |-> d, hasHeader |-> h, columnMapping |-> m]

\* the decimal digits of a small column index, as a run of characters
IndexRun(i) ==
  CASE i = 0 -> "0"
    [] i = 1 -> "1"
    [] i = 2 -> "2"
    [] i = 3 -> "3"
    [] i = 4 -> "4"
    [] OTHER -> "5+"

\* `column_${i}`
ColumnName(i) == <<"column_", IndexRun(i)>>

\* the rowData object built from the values of one line: the last value
\* written under each non-empty header name
RowData(headers, values) ==
  LET n == IF Len(values) < Len(headers) THEN Len(values) ELSE Len(headers)
      used == {k \in 1..n : headers[k] # <<>>}
      last(name) == CHOOSE k \in used :
                      /\ headers[k] = name
                      /\ \A j \in used : headers[j] = name => j <= k
  IN [name \in {headers[k] : k \in used} |-> values[last(name)]]

\* rowData[name]
Read(rowData, name) ==
  IF name \in DOMAIN rowData THEN Cell(rowData[name]) ELSE NoCell

parseCSVRow(rowData, mapping, rowNumber) ==
  LET lat == ParseFloat(Read(rowData, mapping.lat))
      lng == ParseFloat(Read(rowData, mapping.lng))
      coordinates == [lat |-> lat, lng |-> lng]
      id == IF mapping.id # <<>>
            THEN StringValue(Read(rowData, mapping.id))
            ELSE Num(rowNumber)
  IN CASE JsIsNaN(lat) \/ JsIsNaN(lng) ->
            [ok |-> FALSE, msg |-> "Invalid coordinates",
             shown |-> <<Read(rowData, mapping.lat), Read(rowData, mapping.lng)>>,
             loc |-> Location(Undef, coordinates)]
       [] ~validateCoordinate(coordinates) ->
            [ok |-> FALSE, msg |-> "Coordinates out of range",
             shown |-> <<lat, lng>>,
             loc |-> Location(Undef, coordinates)]
       [] OTHER ->
            [ok |-> TRUE, msg |-> "", shown |-> <<>>,
             loc |-> Location(id, coordinates)]

\* header names always read from the first line
CSVHeadersFromFirstLine(lines, delimiter, hasHeader) ==
  LET first == Split(lines[1], delimiter)
  IN [k \in 1..Len(first) |-> StripQuotes(Trim(first[k]))]

\* the header names parseCSV works with
CSVHeaders(lines, delimiter, hasHeader) ==
  LET first == Split(lines[1], delimiter)
  IN IF hasHeader
     THEN [k \in 1..Len(first) |-> StripQuotes(Trim(first[k]))]
     ELSE [k \in 1..Len(first) |-> ColumnName(k - 1)]

\* ScanRows numbering the errors from 0
RECURSIVE ScanRowsZeroBased(_, _, _, _, _, _, _)
ScanRowsZeroBased(lines, i, delimiter, headers, columnMapping, locations, errors) ==
  IF i >= Len(lines) THEN [locations |-> locations, errors |-> errors]
  ELSE LET line == Trim(lines[i + 1])
       IN IF line = <<>>
          THEN ScanRowsZeroBased(lines, i + 1, delimiter, headers, columnMapping,
                                 locations, errors)
          ELSE LET values == parseCSVLine(line, delimiter)
                   r == parseCSVRow(RowData(headers, values), columnMapping, i + 1)
               IN IF r.ok
                  THEN ScanRowsZeroBased(lines, i + 1, delimiter, headers,
                                         columnMapping, Append(locations, r.loc),
                                         errors)
                  ELSE ScanRowsZeroBased(lines, i + 1, delimiter, headers,
                                         columnMapping, locations,
                                         Append(errors,
                                                ShownError("Row", i, r.msg, r.shown)))

\* the loop over the data rows from 0-based line i on
RECURSIVE ScanRows(_, _, _, _, _, _, _)
ScanRows(lines, i, delimiter, headers, columnMapping, locations, errors) ==
  IF i >= Len(lines) THEN [locations |-> locations, errors |-> errors]
  ELSE LET line == Trim(lines[i + 1])
       IN IF line = <<>>
          THEN ScanRows(lines, i + 1, delimiter, headers, columnMapping,
                        locations, errors)
          ELSE LET values == parseCSVLine(line, delimiter)
                   r == parseCSVRow(RowData(headers, values), columnMapping, i + 1)
               IN IF r.ok
                  THEN ScanRows(lines, i + 1, delimiter, headers, columnMapping,
                                Append(locations, r.loc), errors)
                  ELSE ScanRows(lines, i + 1, delimiter, headers, columnMapping,
                                locations,
                                Append(errors,
                                       ShownError("Row", i + 1, r.msg, r.shown)))

parseCSV(text, options) ==
  LET delimiter == IF options.delimiter = "" THEN "," ELSE options.delimiter
      hasHeader == options.hasHeader # "false"
      columnMapping == IF options.columnMapping.t = "undef"
                       THEN DefaultMapping ELSE options.columnMapping
      lines == TrimmedLines(text)
      dataStartIndex == IF hasHeader THEN 1 ELSE 0
      headers == CSVHeaders(lines, delimiter, hasHeader)
      acc == ScanRows(lines, dataStartIndex, delimiter, headers, columnMapping,
                      <<>>, <<>>)
  IN IF Len(lines) = 0
     THEN LoadResult(<<>>, <<ErrorEntry("", 0, "File is empty")>>, Summary(0, 0, 0))
     ELSE LoadResult(acc.locations, acc.errors,
                     Summary(Len(lines) - dataStartIndex, Len(acc.locations),
                             (Len(lines) - dataStartIndex) - Len(acc.locations)))

-----------------------------------------------------------------------------
(* FileLoader.loadFromFile and FileLoader.loadFromUrl.  A file name or URL *)
(* is a sequence of characters in which a run of characters that are all  *)
(* alike to the code is one element; the characters kept apart are ".",    *)
(* "?", "#" and the "/" of the path.  The content of the                   *)
(* file or response body is one text, given by what JSON.parse makes of it *)
(* (doc) and by its lines (lines).                                         *)

\* toLowerCase on a run of letters
Lower(c) ==
  CASE c = "CSV" -> "csv"
    [] c = "JSON" -> "json"
    [] c = "TSV" -> "tsv"
    [] c = "TXT" -> "txt"
    [] c = "GeoJSON" -> "geojson"
    [] OTHER -> c

\* FileLoader.detectFormat: filename.split('.').pop()?.toLowerCase()
detectFormat(filename) ==
  LET pieces == Split(filename, ".")
      last == pieces[Len(pieces)]
      extension == [k \in 1..Len(last) |-> Lower(last[k])]
  IN CASE extension = <<"json">> -> "json"
       [] extension = <<"csv">> -> "csv"
       [] extension = <<"tsv">> -> "tsv"
       [] extension = <<"txt">> -> "tsv"
       [] extension = <<"geojson">> -> "geojson"
       [] OTHER -> "json"

\* FileLoadOptions as the loaders take them: format and delimiter are ""
\* when absent
LoaderOptions(f, d, h, m) ==
  [format |-> f, delimiter |-> d, hasHeader |-> h, columnMapping |-> m]

\* options.format || this.detectFormat(name)
ResolvedFormat(options, name) ==
  IF options.format # "" THEN options.format ELSE detectFormat(name)

\* the parser call of a switch arm: the parser, the options handed to it
\* (none for the JSON parsers) and what the call did
NoOptions == [t |-> "none"]
ParserCall(parser, options, outcome) ==
  [parser |-> parser, options |-> options, outcome |-> outcome]

\* this.parseCSV(text, options)
CSVCall(lines, options) == ParserCall("parseCSV", options, parseCSV(lines, options))

\* Dispatch handing the caller's options to the CSV parser for tsv as well
DispatchKeepingDelimiter(format, content, options) ==
  CASE format = "json" -> ParserCall("parseJSON", NoOptions, parseJSON(content.doc))
    [] format \in {"csv", "tsv"} -> CSVCall(content.lines, options)
    [] format = "geojson" ->
         ParserCall("parseGeoJSON", NoOptions, parseGeoJSON(content.doc))
    [] OTHER -> ParserCall("none", NoOptions, Thrown("Unsupported file format"))

\* the switch on the format
Dispatch(format, content, options) ==
  CASE format = "json" -> ParserCall("parseJSON", NoOptions, parseJSON(content.doc))
    [] format \in {"csv", "tsv"} ->
         CSVCall(content.lines,
                 IF format = "tsv" THEN [options EXCEPT !.delimiter = "\t"]
                 ELSE options)
    [] format = "geojson" ->
         ParserCall("parseGeoJSON", NoOptions, parseGeoJSON(content.doc))
    [] OTHER -> ParserCall("none", NoOptions, Thrown("Unsupported file format"))

NoCall == ParserCall("none", NoOptions, NoResult)

\* a loader between two awaits, and a loader whose promise has settled
Awaiting(what, fetches, format) ==
  [status |-> what, fetches |-> fetches, format |-> format]

Settled(how, value, fetches, format, call) ==
  [status |-> how, value |-> value, fetches |-> fetches, format |-> format,
   call |-> call]

\* the LoadResult returned by the catch of loadFromUrl
UrlFailure(msg) ==
  LoadResult(<<>>, <<ShownError("", 0, "Failed to load from URL", <<msg>>)>>,
             Summary(0, 0, 0))

\* UrlCatch letting the exception leave loadFromUrl
UrlCatchRethrowing(outcome) ==
  IF outcome.status = "threw"
  THEN [how |-> "rejected", value |-> outcome]
  ELSE [how |-> "resolved", value |-> outcome]

\* the try/catch of loadFromUrl around what its body did
UrlCatch(outcome) ==
  IF outcome.status = "threw"
  THEN [how |-> "resolved", value |-> UrlFailure(outcome.msg)]
  ELSE [how |-> "resolved", value |-> outcome]

\* loadFromFile has no try/catch: an exception of its body rejects the promise
FileSettle(outcome) ==
  IF outcome.status = "threw"
  THEN [how |-> "rejected", value |-> outcome]
  ELSE [how |-> "resolved", value |-> outcome]

\* the settled promise, from what the try/catch (or its absence) made of
\* the body
SettledBy(c, fetches, format, call) == Settled(c.how, c.value, fetches, format, call)

\* the loaders from the switch on
FileDone(call, fetches, format) ==
  SettledBy(FileSettle(call.outcome), fetches, format, call)

UrlDone(call, fetches, format) ==
  SettledBy(UrlCatch(call.outcome), fetches, format, call)

-----------------------------------------------------------------------------
(* DensityCalculator.  Coordinates and bounds are whole numbers and a grid  *)
(* divides its bounds into steps that are whole and even, so that the      *)
(* steps, edges and centres the code computes in floating point are exact. *)
(* A finite cell value is Num(v) or, for a quotient that is not whole,     *)
(* the ratio a/b in lowest terms.                                          *)

RECURSIVE Gcd(_, _)
Gcd(a, b) == IF b = 0 THEN a ELSE Gcd(b, a % b)

Abs(a) == IF a < 0 THEN -a ELSE a

\* the number a/b for b > 0
Ratio(a, b) ==
  IF a % b = 0 THEN Num(a \div b)
  ELSE [t |-> "ratio", v |-> a \div Gcd(Abs(a), b), d |-> b \div Gcd(Abs(a), b)]

Numerator(x) == x.v
Denominator(x) == IF x.t = "ratio" THEN x.d ELSE 1

\* a + b
Plus(a, b) ==
  CASE a.t = "nan" \/ b.t = "nan" -> NaN
    [] a.t = "inf" /\ b.t = "inf" -> IF a.v = b.v THEN a ELSE NaN
    [] a.t = "inf" -> a
    [] b.t = "inf" -> b
    [] OTHER -> Ratio(Numerator(a) * Denominator(b)
                        + Numerator(b) * Denominator(a),
                      Denominator(a) * Denominator(b))

\* a / b
Divide(a, b) ==
  CASE a.t = "nan" \/ b.t = "nan" -> NaN
    [] a.t = "inf" /\ b.t = "inf" -> NaN
    [] a.t = "inf" -> IF b.v < 0 THEN [a EXCEPT !.v = -@] ELSE a
    [] b.t = "inf" -> Num(0)
    [] b.v = 0 -> IF a.v = 0 THEN NaN ELSE IF a.v > 0 THEN PosInf ELSE NegInf
    [] b.v < 0 -> Ratio(-(Numerator(a) * Denominator(b)),
                        -(Denominator(a) * Numerator(b)))
    [] OTHER -> Ratio(Numerator(a) * Denominator(b),
                      Denominator(a) * Numerator(b))

\* x * k for a whole k >= 0
Times(x, k) ==
  CASE x.t = "nan" -> NaN
    [] x.t = "inf" -> IF k = 0 THEN NaN ELSE x
    [] OTHER -> Ratio(Numerator(x) * k, Denominator(x))

\* Math.floor(x)
Floor(x) ==
  IF x.t \in {"nan", "inf"} THEN x ELSE Num(Numerator(x) \div Denominator(x))

\* x > 0
Positive(x) ==
  CASE x.t = "nan" -> FALSE
    [] x.t = "inf" -> x.v = 1
    [] OTHER -> x.v > 0

\* x <= y
Leq(x, y) ==
  CASE x.t = "nan" \/ y.t = "nan" -> FALSE
    [] x.t = "inf" /\ y.t = "inf" -> x.v <= y.v
    [] x.t = "inf" -> x.v = -1
    [] y.t = "inf" -> y.v = 1
    [] OTHER -> Numerator(x) * Denominator(y) <= Numerator(y) * Denominator(x)

\* Math.max(x, y)
Max2(x, y) ==
  CASE x.t = "nan" \/ y.t = "nan" -> NaN
    [] Leq(x, y) -> y
    [] OTHER -> x

\* Math.min(x, k) for a whole k
MinWith(x, k) ==
  CASE x.t = "nan" -> NaN
    [] Leq(x, Num(k)) -> x
    [] OTHER -> Num(k)

\* an array as a value; an array, empty or not, is truthy
Array(elements) == [t |-> "array", v |-> elements]

\* array[index]: undefined unless the index is a position of the array
ElementAt(array, index) ==
  IF index.t = "num" /\ index.v >= 0 /\ index.v < Len(array)
  THEN array[index.v + 1]
  ELSE Undef

\* a location with an intensity
Intense(location, intensity) == [location EXCEPT !.intensity = intensity]

getLocationsInBounds(locations, bounds) ==
  SelectSeq(locations,
            LAMBDA location :
              /\ JsGe(location.coordinates.lat, bounds.south)
              /\ JsLe(location.coordinates.lat, bounds.north)
              /\ JsGe(location.coordinates.lng, bounds.west)
              /\ JsLe(location.coordinates.lng, bounds.east))

\* locations.reduce((sum, loc) => sum + (loc.intensity || 1), 0)
RECURSIVE IntensityTotal(_)
IntensityTotal(locations) ==
  IF locations = <<>> THEN Num(0)
  ELSE Plus(IntensityTotal(SubSeq(locations, 1, Len(locations) - 1)),
            Or2(locations[Len(locations)].intensity, Num(1)))

calculateCellValue(locations, method) ==
  IF Len(locations) = 0 THEN Num(0)
  ELSE CASE method = "count" -> Num(Len(locations))
         [] method = "sum" -> IntensityTotal(locations)
         [] method = "average" ->
              Divide(IntensityTotal(locations), Num(Len(locations)))
         [] OTHER -> Num(Len(locations))

\* config.gridSize || 20 and config.aggregationMethod || 'count'
GridSize(config) == Or2(config.gridSize, Num(20)).v
AggregationMethod(config) ==
  IF config.aggregationMethod = "undef" THEN "count"
  ELSE config.aggregationMethod

LatStep(bounds, gridSize) == (bounds.north - bounds.south) \div gridSize
LngStep(bounds, gridSize) == (bounds.east - bounds.west) \div gridSize

CellBounds(bounds, latStep, lngStep, i, j) ==
  [south |-> bounds.south + (i * latStep),
   north |-> bounds.south + ((i + 1) * latStep),
   west |-> bounds.west + (j * lngStep),
   east |-> bounds.west + ((j + 1) * lngStep)]

CellCenter(cellBounds, latStep, lngStep) ==
  [lat |-> cellBounds.south + (latStep \div 2),
   lng |-> cellBounds.west + (lngStep \div 2)]

\* the cell of one pass of the inner loop
GridCell(locationsInCell, method, cellBounds, latStep, lngStep) ==
  [coordinates |-> CellCenter(cellBounds, latStep, lngStep),
   count |-> Len(locationsInCell),
   value |-> calculateCellValue(locationsInCell, method),
   bounds |-> cellBounds]

\* the cells of all passes, row i = 0..gridSize-1 outside, column j inside
GridCells(locations, bounds, gridSize, method) ==
  [k \in 1..(gridSize * gridSize) |->
     GridCell(getLocationsInBounds(
                locations,
                CellBounds(bounds, LatStep(bounds, gridSize),
                           LngStep(bounds, gridSize),
                           (k - 1) \div gridSize, (k - 1) % gridSize)),
              method,
              CellBounds(bounds, LatStep(bounds, gridSize),
                         LngStep(bounds, gridSize),
                         (k - 1) \div gridSize, (k - 1) % gridSize),
              LatStep(bounds, gridSize), LngStep(bounds, gridSize))]

\* a grid that starts from the cells of the call before
GridKeptBetweenCalls(kept) == kept

\* const grid = []: every call starts from an empty grid of its own
NewGrid(kept) == <<>>

\* the grid returned by a call made after a call that returned `kept`
calculateDensityGridAfter(kept, locations, bounds, config) ==
  NewGrid(kept) \o SelectSeq(GridCells(locations, bounds, GridSize(config),
                                       AggregationMethod(config)),
                             LAMBDA cell : Positive(cell.value))

calculateDensityGrid(locations, bounds, config) ==
  calculateDensityGridAfter(<<>>, locations, bounds, config)

\* thresholds that belong to the smaller size
calculateOptimalGridSizeInclusive(length) ==
  IF length <= 10 THEN 5
  ELSE IF length <= 50 THEN 10
  ELSE IF length <= 200 THEN 15
  ELSE IF length <= 500 THEN 20
  ELSE 25

\* calculateOptimalGridSize reads locations.length only
calculateOptimalGridSize(length) ==
  IF length < 10 THEN 5
  ELSE IF length < 50 THEN 10
  ELSE IF length < 200 THEN 15
  ELSE IF length < 500 THEN 20
  ELSE 25

getColorForDensity(value, maxValue, colorScale) ==
  IF maxValue = Num(0) THEN ElementAt(colorScale, Num(0))
  ELSE ElementAt(colorScale,
                 MinWith(Floor(Times(Divide(value, maxValue),
                                     Len(colorScale) - 1)),
                         Len(colorScale) - 1))

-----------------------------------------------------------------------------
(* MapVisualizationRenderer.renderDensity                                  *)

\* the nine colours used when the configuration names no scale
DefaultColorScale == Array([k \in 1..9 |-> Text(k)])

\* Math.max(...gridCells.map(cell => cell.value), 1)
RECURSIVE MaxValue(_)
MaxValue(gridCells) ==
  IF gridCells = <<>> THEN Num(1)
  ELSE Max2(gridCells[1].value, MaxValue(Tail(gridCells)))

Rectangles(gridCells, maxValue, colorScale) ==
  [k \in 1..Len(gridCells) |->
     [bounds |-> gridCells[k].bounds,
      value |-> gridCells[k].value,
      fillColor |-> getColorForDensity(gridCells[k].value, maxValue,
                                       colorScale)]]

\* the rectangles added to the density layer, with the maximum and the scale
\* they were coloured by
DensityLayer(gridCells, colorScale) ==
  [status |-> "returned",
   maxValue |-> MaxValue(gridCells),
   colorScale |-> colorScale,
   rectangles |-> Rectangles(gridCells, MaxValue(gridCells), colorScale)]

renderDensity(data, mapBounds, densityConfig) ==
  DensityLayer(calculateDensityGrid(data, mapBounds, densityConfig),
               Or2(densityConfig.colorScale, DefaultColorScale).v)

-----------------------------------------------------------------------------
(* The explored inputs                                                     *)

\* all sequences over S of length lo..hi
SeqsBetween(S, lo, hi) == UNION {[1..n -> S] : n \in lo..hi}

\* components handed to the validators: numbers at and around the limits,
\* the non-finite numbers, and the non-number values a parsed document can
\* carry in a coordinate position
CoordinateValues ==
  {Num(v) : v \in {-LNG_LIMIT - 1, -LNG_LIMIT, -LAT_LIMIT - 1, -LAT_LIMIT, 0,
                   LAT_LIMIT, LAT_LIMIT + 1, LNG_LIMIT, LNG_LIMIT + 1}}
    \cup {NaN, PosInf, NegInf, Undef, Null, Str(45), Text(1)}

Coordinates == [lat : CoordinateValues, lng : CoordinateValues]

\* name, title, intensity, weight, value, metadata, properties of a record
Descriptions ==
  { <<Text(2), Undef, Num(9), Undef, Undef, Undef, Undef>>,
    <<Text(2), Text(3), Num(9), Num(5), Num(3), ObjectValue(1), ObjectValue(2)>>,
    <<Undef, Text(3), Undef, Num(5), Num(3), Undef, ObjectValue(2)>>,
    <<Undef, Undef, Undef, Undef, Num(3), Undef, Undef>>,
    <<Undef, Undef, Num(0), Undef, Undef, Undef, Undef>>,
    <<Undef, Undef, Num(0), Num(5), Undef, Undef, Undef>>,
    <<Empty, Text(3), Undef, Num(0), Num(3), Undef, Undef>> }

\* records of a JSON list
Items ==
  \* lat/lng pairs, with and without an id
  {Obj(NoPair, Num(10), Num(20), Undef, Undef, NoPair, i) : i \in {Undef, Num(0), Num(7)}}
  \* lat/lng pairs failing validation, or accepted by coercion
  \cup {Obj(NoPair, la, Num(20), Undef, Undef, NoPair, Undef) :
          la \in {Num(95), PosInf, Null, Str(45), Text(1)}}
  \* a nested coordinates field next to the other pairs
  \cup {Obj(c, Num(30), Num(40), Num(50), Num(60), NoPair, Undef) :
          c \in {PairObj(Num(10), Num(20)), PairObj(Num(95), Num(20)),
                 PairObj(Num(10), Undef), PairArr(Num(20), Num(10)), NullPair}}
  \* latitude/longitude pairs, alone or next to half a lat/lng pair
  \cup {Obj(NoPair, la, Undef, la2, Num(20), NoPair, Undef) :
          la \in {Undef, Num(30)}, la2 \in {Num(10), Num(95), Undef}}
  \* lat/lng before latitude/longitude
  \cup {Obj(NoPair, la, Num(20), Num(50), Num(60), NoPair, Undef) :
          la \in {Num(10), Num(95)}}
  \* the coords array of the file-loading guide, [lat, lng]
  \cup {Obj(NoPair, Undef, Undef, Undef, Undef, PairArr(Num(10), Num(20)), Undef)}
  \* records with descriptive fields: intensity before weight before value,
  \* name before title, metadata before properties
  \cup {Described(Obj(NoPair, Num(10), Num(20), Undef, Undef, NoPair, Num(7)),
                   d[1], d[2], d[3], d[4], d[5], d[6], d[7]) : d \in Descriptions}
  \* bare arrays [lng, lat], null and a primitive
  \cup {Arr(es) : es \in {<<Num(20), Num(10)>>, <<Num(20), Num(95)>>, <<Num(20)>>}}
  \cup {NullItem, PrimItem}

\* records of the lists found under `locations` and `data`
WrappedItems ==
  {Obj(NoPair, Num(10), Num(20), Undef, Undef, NoPair, Num(7)),
   Obj(NoPair, Num(95), Num(20), Undef, Undef, NoPair, Undef),
   NullItem}

JSONDocuments ==
  {Malformed, NullDoc, PrimDoc}
    \cup {ArrayDoc(xs) : xs \in SeqsBetween(Items, 0, MaxRecords)}
    \cup {ObjectDoc(List(xs), d, "undef", NoList) :
            xs \in SeqsBetween(WrappedItems, 0, MaxRecords), d \in {NoList, NonArray}}
    \cup {ObjectDoc(l, List(xs), "undef", NoList) :
            l \in {NoList, NonArray}, xs \in SeqsBetween(WrappedItems, 0, MaxRecords)}
    \cup {ObjectDoc(l, d, "FeatureCollection", List(<<>>)) :
            l \in {NoList, NonArray}, d \in {NoList, NonArray}}

\* property bags with alert-type keys, a key the parser does not read, and
\* descriptive keys
AlertProperties ==
  { [Properties(Undef) EXCEPT !.alert_type = Text(1), !.alertType = Text(2),
                              !.type = Text(3), !.category = Text(4)],
    [Properties(Undef) EXCEPT !.type = Text(3), !.category = Text(4),
                              !.other = Text(5)],
    [Properties(Undef) EXCEPT !.category = Text(4)],
    [Properties(Undef) EXCEPT !.alert_type = Empty, !.category = Text(4)],
    [Properties(Undef) EXCEPT !.type = Num(0)],
    [Properties(Undef) EXCEPT !.category = Text(4), !.processedAlertType = Text(9)],
    [Properties(Undef) EXCEPT !.other = Text(5), !.name = Text(6),
                              !.intensity = Num(9)],
    [Properties(Undef) EXCEPT !.title = Text(7), !.weight = Num(5)] }

\* features of a GeoJSON collection
Features ==
  {Feature(Geometry("Point", CoordsArr(<<Num(20), Num(10)>>)), pr, i) :
     pr \in {NoProperties, NullProperties, Properties(Undef), Properties(Num(0)),
             Properties(Num(7))},
     i \in {Undef, Num(5)}}
  \cup {Feature(Geometry("Point", c), Properties(Undef), Undef) :
          c \in {CoordsArr(<<Num(20), Num(95)>>), CoordsArr(<<Num(20)>>),
                 CoordsArr(<<Null, Null>>), CoordsArr(<<>>), CoordsNotIterable,
                 NoCoords}}
  \cup {Feature(g, Properties(Undef), Undef) :
          g \in {Geometry("LineString", CoordsArr(<<Num(20), Num(10)>>)),
                 NoGeometry, NullGeometry}}
  \cup {Feature(Geometry("Point", CoordsArr(<<Num(20), Num(10)>>)), pr, Undef) :
          pr \in AlertProperties}
  \cup {NullFeature}

GeoJSONDocuments ==
  {Malformed, NullDoc, PrimDoc, ArrayDoc(<<>>)}
    \cup {ObjectDoc(NoList, NoList, "FeatureCollection", List(fs)) :
            fs \in SeqsBetween(Features, 0, MaxRecords)}
    \cup {ObjectDoc(NoList, NoList, ty, fl) :
            ty \in {"undef", "Feature", "FeatureCollection"},
            fl \in {NoList, NonArray}}
    \cup {ObjectDoc(NoList, NoList, ty, List(<<>>)) : ty \in {"undef", "Feature"}}

\* lines of a delimited text
Lines ==
  { <<"lat", ",", "lng">>,
    <<"id", ",", "lat", ",", "lng">>,
    <<"10", ",", "20">>,
    <<"95", ",", "20">>,
    <<"abc", ",", "20">>,
    <<"10", ",", "200">>,
    <<"Infinity", ",", "20">>,
    <<"7", ",", "10", ",", "20">>,
    <<"0", ",", "10", ",", "20">>,
    <<"\"", "10", "\"", ",", " ", "'", "20", "'">>,
    <<>>,
    <<" ">> }

Texts == SeqsBetween(Lines, 1, MaxLines)

\* lines handed to parseCSVLine on its own: an ordinary character, the
\* delimiter and the two quote characters in every arrangement
LineCharacters == {"a", ",", "\"", "'"}

CSVLines == SeqsBetween(LineCharacters, 0, MaxChars)

LoadOptions ==
  { Options("", "undef", NoMapping),
    Options("", "true", Mapping(<<"lat">>, <<"lng">>, <<>>)),
    Options("", "false", NoMapping),
    Options("", "false", Mapping(ColumnName(0), ColumnName(1), <<>>)) }

\* names of files
FileNames ==
  { <<"data", ".", "json">>, <<"data", ".", "csv">>, <<"data", ".", "CSV">>,
    <<"data", ".", "tsv">>, <<"data", ".", "txt">>, <<"data", ".", "geojson">>,
    <<"data", ".", "GeoJSON">>, <<"data", ".", "xml">>,
    <<"my", ".", "data", ".", "csv">>, <<"data">>, <<"csv">> }

\* URLs: a path with an extension, alone, before a query string and before a
\* fragment; a path without extension; a query string holding a dot
Urls ==
  { <<"http://host", ".", "org", "/", "data", ".", "csv">>,
    <<"http://host", ".", "org", "/", "data", ".", "TSV">>,
    <<"http://host", ".", "org", "/", "data", ".", "geojson">>,
    <<"http://host", ".", "org", "/", "data", ".", "csv", "?", "v=1">>,
    <<"http://host", ".", "org", "/", "data", ".", "geojson", "#", "top">>,
    <<"http://host", ".", "org", "/", "data", ".", "json", "?", "f=a", ".", "csv">>,
    <<"http://host", ".", "org", "/", "data">>,
    <<"http://host", ".", "org", "/", "v1", ".", "csv", "/", "data">> }

\* a text as JSON.parse sees it and as its lines
Content(doc, lines) == [doc |-> doc, lines |-> lines]

\* the texts  [[20,10]]  null  {"type":"FeatureCollection","features":[]}
\* and a header with one row separated by commas, tabs and semicolons
Contents ==
  { Content(ArrayDoc(<<Arr(<<Num(20), Num(10)>>)>>), << <<"[[20", ",", "10]]">> >>),
    Content(NullDoc, << <<"null">> >>),
    Content(ObjectDoc(NoList, NoList, "FeatureCollection", List(<<>>)),
            << <<"{", "\"", "type", "\"", ":", "\"", "FeatureCollection", "\"", ",",
                 "\"", "features", "\"", ":[]}">> >>),
    Content(Malformed, << <<"lat", ",", "lng">>, <<"10", ",", "20">> >>),
    Content(Malformed, << <<"lat", "\t", "lng">>, <<"10", "\t", "20">> >>),
    Content(Malformed, << <<"lat", ";", "lng">>, <<"10", ";", "20">> >>) }

\* options of the loaders; "xml" is a format the switch does not know
LoaderOptionSets ==
  { LoaderOptions(f, d, h, m) :
      f \in {"", "json", "csv", "tsv", "geojson", "xml"},
      d \in {"", ";"},
      h \in {"undef", "false"},
      m \in {NoMapping, Mapping(<<"lat">>, <<"lng">>, <<>>)} }

\* the bounds of the map; with 2 or 20 cells a side the steps are 20 and 2
MapBounds == {[south |-> 0, north |-> 40, west |-> 0, east |-> 40]}

Place(lat, lng) == Location(Undef, [lat |-> Num(lat), lng |-> Num(lng)])

\* intensities a loaded location can carry: none, zero, a weight, a negative
\* number, and the Infinity that the text Infinity or 1e999 parses to
Intensities == {Undef, Num(0), Num(2), Num(-1), PosInf}

\* a place inside a cell of either grid, with each intensity
InteriorLocations == {Intense(Place(1, 1), x) : x \in Intensities}

\* places on an edge shared by two cells, on a corner shared by four, on the
\* outer corner of the bounds, and outside the bounds
BorderLocations == {Place(20, 1), Place(20, 20), Place(40, 40), Place(41, 1)}

DensityLocations ==
  SeqsBetween(InteriorLocations \cup BorderLocations, 0, MaxLocations)

DensityConfig(gridSize, method, colorScale) ==
  [gridSize |-> gridSize, aggregationMethod |-> method,
   colorScale |-> colorScale]

AggregationMethods == {"undef", "count", "sum", "average"}

DensityConfigs ==
  {DensityConfig(g, m, Undef) : g \in {Undef, Num(2)}, m \in AggregationMethods}

\* the configurations of the renderer: no scale, a scale of three colours
RenderConfigs ==
  {DensityConfig(g, m, s) :
     g \in {Undef, Num(2)}, m \in AggregationMethods,
     s \in {Undef, Array(<<Text(11), Text(12), Text(13)>>)}}

\* "median" is a method the switch does not know
CellValueCalls ==
  [locations : SeqsBetween(InteriorLocations, 0, MaxLocations),
   method : {"count", "sum", "average", "median"}]

ColorCalls ==
  [value : {Num(-1), Num(0), Num(1), Num(2), Num(3), Ratio(1, 2), PosInf},
   maxValue : {Num(-2), Num(0), Num(1), Num(2), PosInf},
   colorScale : {<<Text(11)>>, <<Text(11), Text(12), Text(13)>>,
                 DefaultColorScale.v}]

-----------------------------------------------------------------------------
(* The state machine.  A behaviour is one call: the initial state holds    *)
(* the operation called (op) and its arguments (input), drawn from the     *)
(* explored inputs, with no result yet; the action of that operation runs  *)
(* it to its end and stores what it returned, or that it threw.            *)

Pending(name) == op = name /\ result = NoResult

\* the page before any load is started
UIIdle ==
  /\ loads = <<>>
  /\ events = <<>>
  /\ currentData = <<>>

Init ==
  /\ result = NoResult
  /\ UIIdle
  /\ uploadMode = "replace"
  /\ \/ op = "validateCoordinate" /\ input \in Coordinates
     \/ op = "validateCoordinates" /\ input \in Coordinates
     \/ op = "parseLocationObject"
          /\ input \in [item : Items, index : 0..(MaxRecords - 1)]
     \/ op = "parseJSON" /\ input \in JSONDocuments
     \/ op = "parseGeoJSON" /\ input \in GeoJSONDocuments
     \/ op = "parseCSV" /\ input \in [text : Texts, options : LoadOptions]
     \/ op = "parseCSVLine" /\ input \in [line : CSVLines, delimiter : {","}]
     \/ op = "calculateDensityGrid"
          /\ input \in [locations : DensityLocations, bounds : MapBounds,
                        config : DensityConfigs]
     \/ op = "calculateCellValue" /\ input \in CellValueCalls
     \/ op = "calculateOptimalGridSize" /\ input \in 0..MaxCount
     \/ op = "getColorForDensity" /\ input \in ColorCalls
     \/ op = "renderDensity"
          /\ input \in [data : DensityLocations, bounds : MapBounds,
                        config : RenderConfigs]
     \/ op = "loadFromFile"
          /\ input \in [name : FileNames, options : LoaderOptionSets,
                        content : Contents, transport : {"ok", "read failure"}]
     \/ op = "loadFromUrl"
          /\ input \in [name : Urls, options : LoaderOptionSets,
                        content : Contents,
                        transport : {"ok", "network failure", "http error",
                                     "body failure"}]

ValidateCoordinate ==
  /\ Pending("validateCoordinate")
  /\ result' = [status |-> "returned", value |-> validateCoordinate(input)]
  /\ UNCHANGED <<op, input>>
  /\ UNCHANGED uiVars

ValidateCoordinates ==
  /\ Pending("validateCoordinates")
  /\ result' = [status |-> "returned", value |-> validateCoordinates(input)]
  /\ UNCHANGED <<op, input>>
  /\ UNCHANGED uiVars

ParseLocationObject ==
  /\ Pending("parseLocationObject")
  /\ result' = [status |-> "returned",
                value |-> parseLocationObject(input.item, input.index)]
  /\ UNCHANGED <<op, input>>
  /\ UNCHANGED uiVars

ParseJSON ==
  /\ Pending("parseJSON")
  /\ result' = parseJSON(input)
  /\ UNCHANGED <<op, input>>
  /\ UNCHANGED uiVars

ParseGeoJSON ==
  /\ Pending("parseGeoJSON")
  /\ result' = parseGeoJSON(input)
  /\ UNCHANGED <<op, input>>
  /\ UNCHANGED uiVars

ParseCSV ==
  /\ Pending("parseCSV")
  /\ result' = parseCSV(input.text, input.options)
  /\ UNCHANGED <<op, input>>
  /\ UNCHANGED uiVars

ParseCSVLine ==
  /\ Pending("parseCSVLine")
  /\ result' = [status |-> "returned",
                value |-> parseCSVLine(input.line, input.delimiter)]
  /\ UNCHANGED <<op, input>>
  /\ UNCHANGED uiVars

\* loadFromFile up to its await: the format is resolved, the read started
LoadFromFileRead ==
  /\ Pending("loadFromFile")
  /\ result' = Awaiting("reading file", 0, ResolvedFormat(input.options, input.name))
  /\ UNCHANGED <<op, input>>
  /\ UNCHANGED uiVars

\* the FileReader fires onerror or onload; the switch runs on the text
LoadFromFileSettle ==
  /\ op = "loadFromFile"
  /\ result.status = "reading file"
  /\ result' =
       IF input.transport = "read failure"
       THEN SettledBy(FileSettle(Thrown("Failed to read file")),
                      result.fetches, result.format, NoCall)
       ELSE FileDone(Dispatch(result.format, input.content, input.options),
                     result.fetches, result.format)
  /\ UNCHANGED <<op, input>>
  /\ UNCHANGED uiVars

\* loadFromUrl up to its first await: fetch(url) is called
LoadFromUrlFetch ==
  /\ Pending("loadFromUrl")
  /\ result' = Awaiting("fetching", 1, "")
  /\ UNCHANGED <<op, input>>
  /\ UNCHANGED uiVars

\* the fetch promise settles: a rejection and a response that is not ok both
\* end in the catch, an ok response starts the read of the body
LoadFromUrlResponse ==
  /\ op = "loadFromUrl"
  /\ result.status = "fetching"
  /\ result' =
       CASE input.transport = "network failure" ->
              SettledBy(UrlCatch(Thrown("Failed to fetch")), result.fetches, "",
                        NoCall)
         [] input.transport = "http error" ->
              SettledBy(UrlCatch(Thrown("HTTP 404")), result.fetches, "", NoCall)
         [] OTHER -> Awaiting("reading body", result.fetches, "")
  /\ UNCHANGED <<op, input>>
  /\ UNCHANGED uiVars

\* response.text() settles; the format is resolved and the switch runs
LoadFromUrlBody ==
  /\ op = "loadFromUrl"
  /\ result.status = "reading body"
  /\ result' =
       IF input.transport = "body failure"
       THEN SettledBy(UrlCatch(Thrown("Failed to read body")), result.fetches, "",
                      NoCall)
       ELSE UrlDone(Dispatch(ResolvedFormat(input.options, input.name),
                             input.content, input.options),
                    result.fetches, ResolvedFormat(input.options, input.name))
  /\ UNCHANGED <<op, input>>
  /\ UNCHANGED uiVars

\* a first call of calculateDensityGrid
CalculateDensityGrid ==
  /\ Pending("calculateDensityGrid")
  /\ result' = [status |-> "called once",
                first |-> calculateDensityGridAfter(<<>>, input.locations,
                                                    input.bounds, input.config)]
  /\ UNCHANGED <<op, input>>
  /\ UNCHANGED uiVars

\* a second call with the same arguments
CalculateDensityGridAgain ==
  /\ op = "calculateDensityGrid"
  /\ result.status = "called once"
  /\ result' = [status |-> "called twice",
                first |-> result.first,
                second |-> calculateDensityGridAfter(
                             result.first, input.locations, input.bounds,
                             input.config)]
  /\ UNCHANGED <<op, input>>
  /\ UNCHANGED uiVars

CalculateCellValue ==
  /\ Pending("calculateCellValue")
  /\ result' = [status |-> "returned",
                value |-> calculateCellValue(input.locations, input.method)]
  /\ UNCHANGED <<op, input>>
  /\ UNCHANGED uiVars

CalculateOptimalGridSize ==
  /\ Pending("calculateOptimalGridSize")
  /\ result' = [status |-> "returned",
                value |-> calculateOptimalGridSize(input)]
  /\ UNCHANGED <<op, input>>
  /\ UNCHANGED uiVars

GetColorForDensity ==
  /\ Pending("getColorForDensity")
  /\ result' = [status |-> "returned",
                value |-> getColorForDensity(input.value, input.maxValue,
                                             input.colorScale)]
  /\ UNCHANGED <<op, input>>
  /\ UNCHANGED uiVars

RenderDensity ==
  /\ Pending("renderDensity")
  /\ result' = renderDensity(input.data, input.bounds, input.config)
  /\ UNCHANGED <<op, input>>
  /\ UNCHANGED uiVars

Next ==
  \/ CalculateDensityGrid
  \/ CalculateDensityGridAgain
  \/ CalculateCellValue
  \/ CalculateOptimalGridSize
  \/ GetColorForDensity
  \/ RenderDensity
  \/ ValidateCoordinate
  \/ ValidateCoordinates
  \/ ParseLocationObject
  \/ ParseJSON
  \/ ParseGeoJSON
  \/ ParseCSV
  \/ ParseCSVLine
  \/ LoadFromFileRead
  \/ LoadFromFileSettle
  \/ LoadFromUrlFetch
  \/ LoadFromUrlResponse
  \/ LoadFromUrlBody

Spec == Init /\ [][Next]_vars

-----------------------------------------------------------------------------
(* The upload component: loads started by the user                         *)

\* one file of a batch, or the URL of a URL load: the number of the load in
\* the order the user started the loads, and the position in its batch
Source(t, i) == [load |-> t, file |-> i]

\* what a settled load hands back.  loadFromFile can resolve to a result
\* without errors, resolve to a result carrying errors, or reject;
\* loadFromUrl catches every failure and never rejects.
Outcomes(kind) ==
  IF kind = "url"
  THEN {"clean", "with errors"}
  ELSE {"clean", "with errors", "rejected"}

\* result.locations of a resolved load: one location, named after its source,
\* when the text parsed; none when the result carries errors
ResultLocations(t, i, outcome) ==
  IF outcome = "clean" THEN <<Source(t, i)>> ELSE <<>>

Started(t, i) == [type |-> "start", load |-> t, file |-> i, locations |-> <<>>]
Delivered(t, i, data) ==
  [type |-> "deliver", load |-> t, file |-> i, locations |-> data]
ErrorShown(t, i) ==
  [type |-> "error", load |-> t, file |-> i, locations |-> <<>>]

\* the consumer callback given to the component by the application
onDataLoaded(data, shouldAppend) ==
  IF shouldAppend THEN currentData \o data ELSE data

\* shouldAppendData reads the radio button when the result is delivered
shouldAppendData == uploadMode = "append"

\* a loop that ends at the first rejected file
handleFilesStoppingAtRejection(load, outcome) ==
  IF load.index < load.files /\ outcome # "rejected"
  THEN [load EXCEPT !.index = @ + 1]
  ELSE [load EXCEPT !.pc = "done"]

\* the for loop of handleFiles once handleSingleFile has returned:
\* handleSingleFile catches whatever the load throws, so the loop goes on to
\* the next file whatever the outcome was
handleFiles(load, outcome) ==
  IF load.index < load.files
  THEN [load EXCEPT !.index = @ + 1]
  ELSE [load EXCEPT !.pc = "done"]

\* handleLoadResult for a resolved load, showError for a rejected one
handleSingleFile(t, i, outcome) ==
  IF outcome = "rejected"
  THEN ErrorShown(t, i)
  ELSE Delivered(t, i, ResultLocations(t, i, outcome))

\* the events of a load that settled and the start of the next file, if the
\* loop has one
EventsAfter(t, i, outcome, next) ==
  IF next.pc = "loading"
  THEN <<handleSingleFile(t, i, outcome), Started(t, next.index)>>
  ELSE <<handleSingleFile(t, i, outcome)>>

\* the files and URLs of the loads started so far
RECURSIVE SourcesOf(_)
SourcesOf(ls) ==
  IF ls = <<>> THEN 0 ELSE ls[1].files + SourcesOf(Tail(ls))

UIInit ==
  /\ op = "upload"
  /\ input = Undef
  /\ result = NoResult
  /\ UIIdle
  /\ uploadMode \in {"replace", "append"}

\* the change or drop listener: handleFiles is called, not awaited, and runs
\* to the await of its first load
HandleFiles ==
  /\ Len(loads) < MaxLoads
  /\ \E n \in 0..(MaxSources - SourcesOf(loads)) :
       /\ loads' = Append(loads, [kind |-> "batch", files |-> n, index |-> 1,
                                  pc |-> IF n = 0 THEN "done" ELSE "loading"])
       /\ events' = IF n = 0 THEN events
                    ELSE Append(events, Started(Len(loads) + 1, 1))
  /\ UNCHANGED <<currentData, uploadMode>>
  /\ UNCHANGED callVars

\* the click listener of the URL button with a URL in the field:
\* handleLoadFromUrl runs to the await of loadFromUrl
HandleLoadFromUrl ==
  /\ Len(loads) < MaxLoads
  /\ SourcesOf(loads) < MaxSources
  /\ loads' = Append(loads, [kind |-> "url", files |-> 1, index |-> 1,
                             pc |-> "loading"])
  /\ events' = Append(events, Started(Len(loads) + 1, 1))
  /\ UNCHANGED <<currentData, uploadMode>>
  /\ UNCHANGED callVars

\* the load a batch is awaiting settles: handleSingleFile delivers the result
\* or shows the error, and handleFiles goes on to its next file
FileLoadSettles ==
  \E t \in 1..Len(loads) :
    /\ loads[t].kind = "batch"
    /\ loads[t].pc = "loading"
    /\ \E outcome \in Outcomes("batch") :
         /\ loads' = [loads EXCEPT ![t] = handleFiles(loads[t], outcome)]
         /\ events' = events \o EventsAfter(t, loads[t].index, outcome,
                                            handleFiles(loads[t], outcome))
         /\ currentData' =
              IF outcome = "rejected" THEN currentData
              ELSE onDataLoaded(ResultLocations(t, loads[t].index, outcome),
                                shouldAppendData)
    /\ UNCHANGED uploadMode
    /\ UNCHANGED callVars

\* the load handleLoadFromUrl is awaiting settles
UrlLoadSettles ==
  \E t \in 1..Len(loads) :
    /\ loads[t].kind = "url"
    /\ loads[t].pc = "loading"
    /\ \E outcome \in Outcomes("url") :
         /\ loads' = [loads EXCEPT ![t].pc = "done"]
         /\ events' = Append(events, handleSingleFile(t, 1, outcome))
         /\ currentData' = onDataLoaded(ResultLocations(t, 1, outcome),
                                        shouldAppendData)
    /\ UNCHANGED uploadMode
    /\ UNCHANGED callVars

UINext ==
  \/ HandleFiles
  \/ HandleLoadFromUrl
  \/ FileLoadSettles
  \/ UrlLoadSettles

UISpec == UIInit /\ [][UINext]_vars

\* a FileReader fires onload or onerror and a fetch settles: a load that was
\* started does settle
UIFairSpec == UISpec /\ WF_vars(FileLoadSettles) /\ WF_vars(UrlLoadSettles)

-----------------------------------------------------------------------------
(* Vocabulary of the properties                                            *)

\* the call of the behaviour has run
Called(name) == op = name /\ result # NoResult

\* the n-th smallest element of a set of positions
Kth(S, n) == CHOOSE k \in S : Cardinality({j \in S : j <= k}) = n

\* the parsed document has one of the three shapes parseJSON reads a list
\* from: a bare list, a list under `locations`, a list under `data`
JSONListShape(doc) ==
  \/ doc.kind = "array"
  \/ doc.kind = "object" /\ (doc.locations.t = "array" \/ doc.data.t = "array")

\* the list of records of such a document
JSONRecords(doc) ==
  IF doc.kind = "array" THEN doc.items
  ELSE IF doc.locations.t = "array" THEN doc.locations.items
  ELSE doc.data.items

\* the parsed document is a FeatureCollection with a list of features
FeatureCollectionShape(doc) ==
  doc.kind = "object" /\ doc.type = "FeatureCollection" /\ doc.features.t = "array"

\* the coordinate pair a record offers, by the first rule of the order
\* (a) coordinates, (b) lat/lng, (c) latitude/longitude, (d) bare array
\* that the record matches; "none" when it matches no rule
FirstRule(item) ==
  IF item.coordinates.t \in {"obj", "arr"} THEN "a"
  ELSE IF item.lat # Undef /\ item.lng # Undef THEN "b"
  ELSE IF item.latitude # Undef /\ item.longitude # Undef THEN "c"
  ELSE IF item.kind = "arr" /\ Len(item.elems) >= 2 THEN "d"
  ELSE "none"

PairOfRule(item, rule) ==
  CASE rule = "a" -> [lat |-> item.coordinates.lat, lng |-> item.coordinates.lng]
    [] rule = "b" -> [lat |-> item.lat, lng |-> item.lng]
    [] rule = "c" -> [lat |-> item.latitude, lng |-> item.longitude]
    [] rule = "d" -> [lat |-> item.elems[2], lng |-> item.elems[1]]

\* the record resolves to a coordinate pair that passes the validator
RecordValid(item) ==
  /\ item.kind # "null"
  /\ FirstRule(item) # "none"
  /\ validateCoordinate(PairOfRule(item, FirstRule(item)))

\* the pair of a GeoJSON Point feature, [lng, lat], and its validity
FeatureIsPoint(f) ==
  /\ f.kind = "obj"
  /\ f.geometry.t = "obj"
  /\ f.geometry.type = "Point"
  /\ f.geometry.coordinates.t = "arr"

FeaturePair(f) ==
  [lat |-> CoordElem(f.geometry.coordinates, 1),
   lng |-> CoordElem(f.geometry.coordinates, 0)]

FeatureValid(f) == FeatureIsPoint(f) /\ validateCoordinate(FeaturePair(f))

\* locations and errors are the accepted and the rejected positions of a
\* list, each in input order, the errors labelled with their positions
Partitioned(res, n, accepted, pairAt(_), label) ==
  LET acc == {k \in 1..n : accepted[k]}
      rej == {k \in 1..n : ~accepted[k]}
  IN /\ res.status = "returned"
     /\ Len(res.locations) = Cardinality(acc)
     /\ \A m \in 1..Cardinality(acc) :
          res.locations[m].coordinates = pairAt(Kth(acc, m))
     /\ Len(res.errors) = Cardinality(rej)
     /\ \A m \in 1..Cardinality(rej) :
          /\ res.errors[m].label = label
          /\ res.errors[m].n = Kth(rej, m)
     /\ Len(res.locations) + Len(res.errors) = res.summary.totalRows
     /\ res.summary.totalRows = n

-----------------------------------------------------------------------------
(* Properties                                                              *)

\* C1: every LoadResult returned by parseJSON, parseCSV or parseGeoJSON has
\* summary.validLocations = locations.length and
\* summary.validLocations + summary.invalidRows = summary.totalRows, also
\* when the input ends in a structural failure.
C1_SummaryAccounting ==
  (op \in {"parseJSON", "parseCSV", "parseGeoJSON"} /\ result.status = "returned") =>
    /\ result.summary.validLocations = Len(result.locations)
    /\ result.summary.validLocations + result.summary.invalidRows
         = result.summary.totalRows

\* C2: over a list of records (parseJSON) or the features of a
\* FeatureCollection (parseGeoJSON) a bad record never stops the scan:
\* locations is the input-order subsequence of the records whose resolved
\* coordinates pass the validator, errors has one entry per other record, in
\* input order and labelled with the record's 1-based position, and
\* locations.length + errors.length = totalRows.
C2_ScanKeepsEveryRecord ==
  /\ (Called("parseJSON") /\ JSONListShape(input)) =>
       LET raw == JSONRecords(input)
       IN Partitioned(result, Len(raw),
                      [k \in 1..Len(raw) |-> RecordValid(raw[k])],
                      LAMBDA k : PairOfRule(raw[k], FirstRule(raw[k])), "Row")
  /\ (Called("parseGeoJSON") /\ FeatureCollectionShape(input)) =>
       LET fs == input.features.items
       IN Partitioned(result, Len(fs),
                      [k \in 1..Len(fs) |-> FeatureValid(fs[k])],
                      LAMBDA k : FeaturePair(fs[k]), "Feature")

\* C2 witness: a list whose first record is null (reading it raises) and
\* whose second record was still scanned and became a location.
C2_Witness ==
  /\ Called("parseJSON")
  /\ input.kind = "array"
  /\ Len(input.items) = 2
  /\ input.items[1].kind = "null"
  /\ Len(result.locations) = 1
  /\ Len(result.errors) = 1
  /\ result.errors[1].n = 1

\* C3: for parseCSV errors has exactly one entry per row that did not
\* become a Location: errors.length = summary.invalidRows for every text,
\* blank lines between data rows included.
C3_ErrorPerInvalidRow ==
  (op = "parseCSV" /\ result.status = "returned") =>
    Len(result.errors) = result.summary.invalidRows

\* C4: parseJSON never throws; for a text that is not JSON, or whose value
\* is none of the three list shapes (null, a number, a string, a boolean
\* included), it returns locations = [], exactly one error and totalRows = 0.
C4_JSONStructuralFailure ==
  (Called("parseJSON") /\ ~JSONListShape(input)) =>
    /\ result.status = "returned"
    /\ result.locations = <<>>
    /\ Len(result.errors) = 1
    /\ result.summary.totalRows = 0

\* C5: parseGeoJSON never throws; for a text that is not JSON, or whose
\* top-level value is not an object with type "FeatureCollection" and a list
\* `features` (a top-level null included), it returns locations = [] and
\* exactly one error.
C5_GeoJSONStructuralFailure ==
  (Called("parseGeoJSON") /\ ~FeatureCollectionShape(input)) =>
    /\ result.status = "returned"
    /\ result.locations = <<>>
    /\ Len(result.errors) = 1

\* C6: parseCSV on an empty file (empty text, or white space and line
\* breaks only) returns locations = [] and the single error 'File is empty'.
C6_EmptyFileIsStructuralFailure ==
  (Called("parseCSV")
     /\ \A k \in 1..Len(input.text) : AllSpace(input.text[k])) =>
    /\ result.status = "returned"
    /\ result.locations = <<>>
    /\ Len(result.errors) = 1
    /\ result.errors[1].msg = "File is empty"

\* C7: validateCoordinate (and validateCoordinates) returns true if and only
\* if lat and lng are both finite numbers with -90 <= lat <= 90 and
\* -180 <= lng <= 180.
C7_ValidIffFiniteAndInRange ==
  (Called("validateCoordinate") \/ Called("validateCoordinates")) =>
    (result.value <=>
       /\ IsFinite(input.lat)
       /\ IsFinite(input.lng)
       /\ -LAT_LIMIT <= input.lat.v /\ input.lat.v <= LAT_LIMIT
       /\ -LNG_LIMIT <= input.lng.v /\ input.lng.v <= LNG_LIMIT)

\* On components of type number (NaN and the infinities included) both
\* validators answer as C7 says; the non-number values of a parsed document
\* (null, strings) are what separates them from it.
ValidatorsRightOnNumbers ==
  ((Called("validateCoordinate") \/ Called("validateCoordinates"))
     /\ IsNumber(input.lat) /\ IsNumber(input.lng)) =>
    (result.value <=>
       /\ IsFinite(input.lat)
       /\ IsFinite(input.lng)
       /\ -LAT_LIMIT <= input.lat.v /\ input.lat.v <= LAT_LIMIT
       /\ -LNG_LIMIT <= input.lng.v /\ input.lng.v <= LNG_LIMIT)

\* what C8 says of a record whose first matching rule is `rule`
RuleDecides(item, r, rule) ==
  /\ rule = "none" => ~r.ok /\ r.msg = "Missing or invalid coordinates"
  /\ rule # "none" =>
       /\ r.ok <=> validateCoordinate(PairOfRule(item, rule))
       /\ r.ok => r.loc.coordinates = PairOfRule(item, rule)
       /\ ~r.ok => r.msg = "Invalid coordinates"

GuideCoordsRecord(item) ==
  /\ item.kind = "obj"
  /\ item.coords.t = "arr"
  /\ FirstRule(item) = "none"
  /\ IsFinite(item.coords.e0) /\ IsFinite(item.coords.e1)
  /\ validateCoordinate([lat |-> item.coords.e0, lng |-> item.coords.e1])

\* C9: a JSON record that gives its position as coords: [lat, lng] is
\* accepted by parseJSON and yields a Location with those coordinates.
C9_GuideCoordsAccepted ==
  (Called("parseJSON") /\ JSONListShape(input)) =>
    \A k \in 1..Len(JSONRecords(input)) :
      LET item == JSONRecords(input)[k]
      IN GuideCoordsRecord(item) =>
           /\ result.status = "returned"
           /\ \E m \in 1..Len(result.locations) :
                result.locations[m].coordinates
                  = [lat |-> item.coords.e0, lng |-> item.coords.e1]

\* the id a record brings along, or its 0-based position when it has none
OwnIdOrIndex(ids, index) ==
  IF \E m \in 1..Len(ids) : ids[m] # Undef
  THEN ids[Kth({m \in 1..Len(ids) : ids[m] # Undef}, 1)]
  ELSE Num(index)

\* C10: every Location produced by parseJSON, parseCSV (default column
\* mapping) or parseGeoJSON has a defined id: the record's own id when it
\* has one (the id 0 included), otherwise the record's positional index.
C10_IdIsOwnIdOrIndex ==
  /\ (Called("parseJSON") /\ JSONListShape(input) /\ result.status = "returned") =>
       LET raw == JSONRecords(input)
           acc == {k \in 1..Len(raw) : RecordValid(raw[k])}
       IN \A m \in 1..Len(result.locations) :
            LET k == Kth(acc, m)
            IN result.locations[m].id = OwnIdOrIndex(<<raw[k].id>>, k - 1)
  /\ (Called("parseGeoJSON") /\ FeatureCollectionShape(input)
        /\ result.status = "returned") =>
       LET fs == input.features.items
           acc == {k \in 1..Len(fs) : FeatureValid(fs[k])}
       IN \A m \in 1..Len(result.locations) :
            LET k == Kth(acc, m)
            IN result.locations[m].id
                 = OwnIdOrIndex(<<fs[k].properties.id, fs[k].id>>, k - 1)
  /\ (Called("parseCSV") /\ input.options.columnMapping.t = "undef"
        /\ result.status = "returned") =>
       \A m \in 1..Len(result.locations) : result.locations[m].id # Undef

\* the first value of a list of fields that is present (undefined when none)
FirstPresent(xs) ==
  IF \E m \in 1..Len(xs) : xs[m] # Undef
  THEN xs[Kth({m \in 1..Len(xs) : xs[m] # Undef}, 1)]
  ELSE Undef

\* C11: for a JSON record the Location's intensity is the value of the first
\* field present among intensity, weight, value (a present intensity of 0 is
\* kept), and its name is the first present among name, title.
C11_FirstPresentFieldWins ==
  (Called("parseLocationObject") /\ result.value.ok) =>
    LET item == input.item
    IN /\ result.value.loc.intensity
            = FirstPresent(<<item.intensity, item.weight, item.value>>)
       /\ result.value.loc.name = FirstPresent(<<item.name, item.title>>)

\* With || every falsy value counts as absent: the precedence of C11 holds for
\* the records whose present intensity, weight, value, name and title are all
\* truthy.
FirstTruthyFieldWins ==
  (Called("parseLocationObject") /\ result.value.ok
     /\ \A x \in {input.item.intensity, input.item.weight, input.item.value,
                   input.item.name, input.item.title} : x = Undef \/ Truthy(x)) =>
    LET item == input.item
    IN /\ result.value.loc.intensity
            = FirstPresent(<<item.intensity, item.weight, item.value>>)
       /\ result.value.loc.name = FirstPresent(<<item.name, item.title>>)

\* the feature is an object whose geometry has type Point
FeatureHasPointType(f) ==
  f.kind = "obj" /\ f.geometry.t = "obj" /\ f.geometry.type = "Point"

\* the positions in errors of the entries labelled "Feature n"
FeatureErrorsAt(res, n) ==
  {m \in 1..Len(res.errors) : res.errors[m].label = "Feature" /\ res.errors[m].n = n}

\* C12: for every GeoJSON Point feature accepted by parseGeoJSON,
\* location.coordinates.lat = geometry.coordinates[1] and
\* location.coordinates.lng = geometry.coordinates[0]; a Point whose swapped
\* pair fails coordinate validation yields no location and exactly one
\* 'Feature n' error.
C12_PointsAreLngLat ==
  (Called("parseGeoJSON") /\ FeatureCollectionShape(input)) =>
    LET fs == input.features.items
        acc == {k \in 1..Len(fs) : FeatureValid(fs[k])}
    IN /\ result.status = "returned"
       /\ Len(result.locations) = Cardinality(acc)
       /\ \A m \in 1..Cardinality(acc) :
            LET c == fs[Kth(acc, m)].geometry.coordinates
            IN /\ result.locations[m].coordinates.lat = CoordElem(c, 1)
               /\ result.locations[m].coordinates.lng = CoordElem(c, 0)
       /\ \A k \in 1..Len(fs) :
            (FeatureHasPointType(fs[k]) /\ ~FeatureValid(fs[k])) =>
              Cardinality(FeatureErrorsAt(result, k)) = 1

\* C12 witness: a Point [20, 95] rejected as 'Feature 1' before a Point
\* [20, 10] that became the location (lat 10, lng 20).
C12_Witness ==
  /\ Called("parseGeoJSON")
  /\ FeatureCollectionShape(input)
  /\ Len(input.features.items) = 2
  /\ FeatureHasPointType(input.features.items[1])
  /\ input.features.items[1].geometry.coordinates = CoordsArr(<<Num(20), Num(95)>>)
  /\ input.features.items[2].geometry.coordinates = CoordsArr(<<Num(20), Num(10)>>)
  /\ Len(result.locations) = 1
  /\ result.locations[1].coordinates = [lat |-> Num(10), lng |-> Num(20)]
  /\ FeatureErrorsAt(result, 1) = {1}

\* C13: parseGeoJSON accepts only features whose geometry type is Point:
\* every feature with another geometry type, or with no geometry, produces
\* exactly one per-feature error and no Location, and the remaining features
\* are still processed.
C13_OnlyPointsAccepted ==
  (Called("parseGeoJSON") /\ FeatureCollectionShape(input)) =>
    LET fs == input.features.items
        points == {k \in 1..Len(fs) : FeatureHasPointType(fs[k])}
        others == {k \in 1..Len(fs) : fs[k].kind = "obj" /\ k \notin points}
    IN /\ result.status = "returned"
       /\ \A k \in others : Cardinality(FeatureErrorsAt(result, k)) = 1
       /\ Len(result.locations) <= Cardinality(points)
       /\ Len(result.locations) = Cardinality({k \in points : FeatureValid(fs[k])})
       /\ result.summary.totalRows = Len(fs)

\* C13 witness: a LineString rejected as 'Feature 1' and the Point after it
\* accepted.
C13_Witness ==
  /\ Called("parseGeoJSON")
  /\ FeatureCollectionShape(input)
  /\ Len(input.features.items) = 2
  /\ input.features.items[1].geometry.type = "LineString"
  /\ FeatureValid(input.features.items[2])
  /\ Len(result.locations) = 1
  /\ FeatureErrorsAt(result, 1) = {1}
  /\ Len(result.errors) = 1

\* the keys of a properties object other than the derived one
PropertyKeys ==
  {"id", "name", "title", "address", "description", "alert_type", "alertType",
   "type", "category", "intensity", "weight", "value", "other"}

\* C14: for every accepted GeoJSON feature, metadata contains every key of
\* the feature's properties with its value unchanged, and contains
\* processedAlertType exactly when at least one of alert_type, alertType,
\* type, category is present in properties, its value being that of the
\* first present key in that order.
C14_MetadataMirrorsProperties ==
  (Called("parseGeoJSON") /\ FeatureCollectionShape(input)
     /\ result.status = "returned") =>
    LET fs == input.features.items
        acc == {k \in 1..Len(fs) : FeatureValid(fs[k])}
    IN \A m \in 1..Len(result.locations) :
         LET properties == fs[Kth(acc, m)].properties
             metadata == result.locations[m].metadata
             first == FirstPresent(<<properties.alert_type, properties.alertType,
                                     properties.type, properties.category>>)
         IN /\ \A key \in PropertyKeys : metadata[key] = properties[key]
            /\ first # Undef => metadata.processedAlertType = first
            /\ first = Undef =>
                 metadata.processedAlertType = properties.processedAlertType

\* The same with "present" read as "truthy": it holds for the features whose
\* alert-type keys, when present, hold truthy values.
MetadataMirrorsTruthyAlertType ==
  (Called("parseGeoJSON") /\ FeatureCollectionShape(input)
     /\ result.status = "returned") =>
    LET fs == input.features.items
        acc == {k \in 1..Len(fs) : FeatureValid(fs[k])}
    IN \A m \in 1..Len(result.locations) :
         LET properties == fs[Kth(acc, m)].properties
             metadata == result.locations[m].metadata
             alerts == <<properties.alert_type, properties.alertType,
                         properties.type, properties.category>>
             first == FirstPresent(alerts)
         IN (\A j \in 1..4 : alerts[j] = Undef \/ Truthy(alerts[j])) =>
              /\ \A key \in PropertyKeys : metadata[key] = properties[key]
              /\ first # Undef => metadata.processedAlertType = first
              /\ first = Undef =>
                   metadata.processedAlertType = properties.processedAlertType

\* the smallest element of a non-empty set of positions
Least(S) == CHOOSE k \in S : \A j \in S : k <= j

\* The tokens C15 describes, read field by field from position i: a field
\* that opens with a quote character is a wrapped value, ending at the next
\* occurrence of that character, which must be followed by the delimiter or
\* the end of the line; any other field is an unwrapped value, ending before
\* the next delimiter, and keeps its characters.  ok is FALSE for a line with
\* a field that opens with a quote character and is not a wrapped value;
\* wrapped counts the wrapped values.
RECURSIVE WrappedFields(_, _, _)
WrappedFields(line, d, i) ==
  IF i > Len(line) THEN [ok |-> TRUE, tokens |-> << <<>> >>, wrapped |-> 0]
  ELSE IF IsQuote(line[i])
  THEN LET closers == {j \in (i + 1)..Len(line) : line[j] = line[i]}
           j == Least(closers)
           rest == WrappedFields(line, d, j + 2)
       IN IF closers = {} THEN [ok |-> FALSE, tokens |-> <<>>, wrapped |-> 0]
          ELSE IF j = Len(line)
          THEN [ok |-> TRUE, tokens |-> <<SubSeq(line, i + 1, j - 1)>>,
                wrapped |-> 1]
          ELSE IF line[j + 1] = d
          THEN [ok |-> rest.ok,
                tokens |-> <<SubSeq(line, i + 1, j - 1)>> \o rest.tokens,
                wrapped |-> 1 + rest.wrapped]
          ELSE [ok |-> FALSE, tokens |-> <<>>, wrapped |-> 0]
  ELSE LET e == Least({j \in i..Len(line) : line[j] = d} \cup {Len(line) + 1})
           rest == WrappedFields(line, d, e + 1)
       IN IF e > Len(line)
          THEN [ok |-> TRUE, tokens |-> <<SubSeq(line, i, e - 1)>>, wrapped |-> 0]
          ELSE [ok |-> rest.ok,
                tokens |-> <<SubSeq(line, i, e - 1)>> \o rest.tokens,
                wrapped |-> rest.wrapped]

\* C15: parseCSVLine splits a line at every delimiter that is not inside a
\* value wrapped in matching single or double quotes, never inside such a
\* value, and removes only the wrapping quote characters: a quote character
\* inside an unwrapped value, or of the other kind inside a wrapped value,
\* is kept and does not change where the line is split.
C15_SplitsOutsideWrappedValues ==
  (Called("parseCSVLine") /\ WrappedFields(input.line, input.delimiter, 1).ok) =>
    result.value = WrappedFields(input.line, input.delimiter, 1).tokens

\* every quote character of the line is one of the two that wrap a value
PlainlyQuoted(line, d) ==
  LET fields == WrappedFields(line, d, 1)
  IN /\ fields.ok
     /\ Cardinality({k \in 1..Len(line) : IsQuote(line[k])}) = 2 * fields.wrapped

\* On such lines parseCSVLine returns the tokens C15 describes.
PlainQuotingSplitsAsDescribed ==
  (Called("parseCSVLine") /\ PlainlyQuoted(input.line, input.delimiter)) =>
    result.value = WrappedFields(input.line, input.delimiter, 1).tokens

\* the cell of the 0-based line i of a text with a header line that the
\* mapping names under `which` ("lat" or "lng")
MappedCell(lines, delimiter, mapping, i, which) ==
  Read(RowData(CSVHeaders(lines, delimiter, TRUE),
               parseCSVLine(Trim(lines[i + 1]), delimiter)),
       mapping[which])

\* the cell does not parse as a finite number within the limit
BadComponent(cell, limit) ==
  LET v == ParseFloat(cell)
  IN ~(v.t = "num" /\ -limit <= v.v /\ v.v <= limit)

\* the error shows the cell, as text or as the number parsed from it
ShowsCell(error, cell) ==
  \E j \in 1..Len(error.shown) :
    error.shown[j] = cell \/ error.shown[j] = ParseFloat(cell)

\* C16: for parseCSV with hasHeader = true, a data row whose mapped lat or lng
\* is not a finite number or is out of range produces no Location and exactly
\* one error; the error names the row by its 1-based line number counting the
\* header line as line 1 and contains the offending values; invalidRows
\* counts the row and totalRows is what it would be were the row valid.
C16_InvalidRowIsOneNumberedError ==
  (Called("parseCSV") /\ input.options.hasHeader # "false") =>
    LET lines == TrimmedLines(input.text)
        delimiter == IF input.options.delimiter = "" THEN "," ELSE input.options.delimiter
        mapping == IF input.options.columnMapping.t = "undef"
                   THEN DefaultMapping ELSE input.options.columnMapping
        rows == {i \in 1..(Len(lines) - 1) : Trim(lines[i + 1]) # <<>>}
        lat(i) == MappedCell(lines, delimiter, mapping, i, "lat")
        lng(i) == MappedCell(lines, delimiter, mapping, i, "lng")
        bad == {i \in rows : BadComponent(lat(i), LAT_LIMIT)
                               \/ BadComponent(lng(i), LNG_LIMIT)}
    IN /\ result.status = "returned"
       /\ Len(result.locations) = Cardinality(rows \ bad)
       /\ Len(result.errors) = Cardinality(bad)
       /\ \A i \in bad :
            \E m \in 1..Len(result.errors) :
              /\ result.errors[m].label = "Row"
              /\ result.errors[m].n = i + 1
              /\ \A j \in 1..Len(result.errors) : result.errors[j].n = i + 1 => j = m
              /\ BadComponent(lat(i), LAT_LIMIT) => ShowsCell(result.errors[m], lat(i))
              /\ BadComponent(lng(i), LNG_LIMIT) => ShowsCell(result.errors[m], lng(i))
       /\ result.summary.totalRows = Len(lines) - 1
       /\ result.summary.invalidRows
            = result.summary.totalRows - Cardinality(rows \ bad)

\* C16 witness: under the header, the row 95,20 is rejected as 'Row 2' with
\* the 95 in its message and the row 10,20 after it is a location.
C16_Witness ==
  /\ Called("parseCSV")
  /\ input.options.hasHeader # "false"
  /\ input.text = << <<"lat", ",", "lng">>, <<"95", ",", "20">>, <<"10", ",", "20">> >>
  /\ Len(result.locations) = 1
  /\ Len(result.errors) = 1
  /\ result.errors[1].n = 2
  /\ result.errors[1].shown = <<Num(95), Num(20)>>
  /\ result.summary = Summary(2, 1, 1)

\* the promise of the loader has settled
LoadSettled(name) == op = name /\ result.status \in {"resolved", "rejected"}

\* the part of a name before its query string or fragment
RECURSIVE PathOf(_)
PathOf(name) ==
  IF name = <<>> \/ Head(name) \in {"?", "#"} THEN <<>>
  ELSE <<Head(name)>> \o PathOf(Tail(name))

\* the format C17 derives from a name: the extension of the final path
\* segment, lower-cased, json when the segment has no extension
ExtensionFormat(name) ==
  LET segments == Split(PathOf(name), "/")
      segment == segments[Len(segments)]
      pieces == Split(segment, ".")
      last == pieces[Len(pieces)]
      extension == [k \in 1..Len(last) |-> Lower(last[k])]
  IN CASE Len(pieces) < 2 -> "json"
       [] extension = <<"csv">> -> "csv"
       [] extension \in {<<"tsv">>, <<"txt">>} -> "tsv"
       [] extension = <<"geojson">> -> "geojson"
       [] OTHER -> "json"

ClaimedFormat(options, name) ==
  IF options.format # "" THEN options.format ELSE ExtensionFormat(name)

\* C17: the load format is options.format when it is given; otherwise it is
\* derived from the extension of the filename, or of the URL's final path
\* segment (a query string or fragment after the path does not change it),
\* by json->json, csv->csv, tsv and txt->tsv, geojson->geojson,
\* case-insensitively; any other or missing extension gives json.
C17_FormatFromOptionOrExtension ==
  /\ (op = "loadFromFile" /\ result # NoResult) =>
       result.format = ClaimedFormat(input.options, input.name)
  /\ (LoadSettled("loadFromUrl") /\ input.transport = "ok") =>
       result.format = ClaimedFormat(input.options, input.name)

\* For a name that ends with its final path segment and whose segment has an
\* extension, and whenever options.format is given, the format is as C17
\* says.
FormatRightWithExtension ==
  ((op = "loadFromFile" /\ result # NoResult)
     \/ (LoadSettled("loadFromUrl") /\ input.transport = "ok")) =>
    LET segments == Split(input.name, "/")
    IN (input.options.format # ""
          \/ (PathOf(input.name) = input.name
                /\ Len(Split(segments[Len(segments)], ".")) >= 2)) =>
         result.format = ClaimedFormat(input.options, input.name)

\* the loader has run its switch on the text
Dispatched(name) == LoadSettled(name) /\ result.call # NoCall

\* C18: when the resolved format is tsv, loadFromFile and loadFromUrl call
\* the CSV parser with the delimiter set to the tab character whatever
\* delimiter the caller's options carry, and with every other option
\* (hasHeader, columnMapping) passed through unchanged.
C18_TsvForcesTabDelimiter ==
  ((Dispatched("loadFromFile") \/ Dispatched("loadFromUrl"))
     /\ result.format = "tsv") =>
    /\ result.call.parser = "parseCSV"
    /\ result.call.options.delimiter = "\t"
    /\ result.call.options.hasHeader = input.options.hasHeader
    /\ result.call.options.columnMapping = input.options.columnMapping
    /\ result.call.outcome
         = parseCSV(input.content.lines,
                    Options("\t", input.options.hasHeader, input.options.columnMapping))

\* C18 witness: a tab-separated text loaded as tsv by a caller whose options
\* name ";" as delimiter and no header; the row is split at the tab.
C18_Witness ==
  /\ Dispatched("loadFromUrl")
  /\ result.format = "tsv"
  /\ input.options.delimiter = ";"
  /\ input.options.hasHeader = "undef"
  /\ input.content.lines = << <<"lat", "\t", "lng">>, <<"10", "\t", "20">> >>
  /\ result.status = "resolved"
  /\ Len(result.value.locations) = 1
  /\ result.value.locations[1].coordinates = [lat |-> Num(10), lng |-> Num(20)]

\* the value is a LoadResult with no location, one error and a zero summary
SingleErrorResult(value) ==
  /\ value.status = "returned"
  /\ value.locations = <<>>
  /\ Len(value.errors) = 1
  /\ value.summary = Summary(0, 0, 0)

\* C19: loadFromUrl issues exactly one fetch per call and its promise never
\* rejects: on a network failure, a non-success HTTP status, a failure while
\* reading the body, an unsupported format or an exception thrown by a
\* parser, it resolves to a LoadResult with zero locations, exactly one error
\* and a summary of all zeros.
C19_UrlLoadNeverRejects ==
  /\ (op = "loadFromUrl" /\ result # NoResult) => result.fetches = 1
  /\ LoadSettled("loadFromUrl") =>
       /\ result.status = "resolved"
       /\ (\/ input.transport # "ok"
           \/ result.format \notin {"json", "csv", "tsv", "geojson"}
           \/ result.call.outcome.status = "threw") =>
            SingleErrorResult(result.value)

\* C19 witness: the body is the text null, loaded as json; the TypeError of
\* parseJSON ends in the catch and the promise resolves to the one error.
C19_Witness ==
  /\ LoadSettled("loadFromUrl")
  /\ input.transport = "ok"
  /\ result.format = "json"
  /\ input.content.doc = NullDoc
  /\ result.call.outcome.status = "threw"
  /\ result.status = "resolved"
  /\ result.fetches = 1
  /\ SingleErrorResult(result.value)

\* C20: loadFromFile never rejects: when reading the file fails, the failure
\* is caught inside FileLoader and the promise resolves to a LoadResult with
\* zero locations and exactly one error.
C20_FileLoadNeverRejects ==
  LoadSettled("loadFromFile") =>
    /\ result.status = "resolved"
    /\ input.transport = "read failure" =>
         /\ result.value.status = "returned"
         /\ result.value.locations = <<>>
         /\ Len(result.value.errors) = 1

\* When the read succeeds, the format is one of the four and the parser
\* returns, the promise of loadFromFile resolves to the parser's result.
FileLoadResolvesWhenNothingThrows ==
  (LoadSettled("loadFromFile") /\ input.transport = "ok"
     /\ result.format \in {"json", "csv", "tsv", "geojson"}
     /\ result.call.outcome.status = "returned") =>
    result.status = "resolved" /\ result.value = result.call.outcome

\* positions in the events of the start of a source and of its settling
StartedAt(t, i) == {p \in 1..Len(events) : events[p] = Started(t, i)}
SettledAt(t, i) ==
  {p \in 1..Len(events) : /\ events[p].type \in {"deliver", "error"}
                          /\ events[p].load = t
                          /\ events[p].file = i}
DeliveredAt(t, i) ==
  {p \in SettledAt(t, i) : events[p].type = "deliver"}

\* the batch t: each file is started once and settles once, a file is started
\* only after the file before it has settled, results and errors come in the
\* order of the batch, and a batch that has ended has loaded every file
BatchInOrder(t) ==
  /\ \A i \in 1..loads[t].files :
       /\ Cardinality(StartedAt(t, i)) <= 1
       /\ Cardinality(SettledAt(t, i)) <= 1
       /\ \A q \in SettledAt(t, i) : \E p \in StartedAt(t, i) : p < q
       /\ i > 1 =>
            \A p \in StartedAt(t, i) : \E q \in SettledAt(t, i - 1) : q < p
       /\ \A j \in 1..loads[t].files :
            i < j => \A p \in SettledAt(t, i), q \in SettledAt(t, j) : p < q
  /\ loads[t].pc = "loading" =>
       /\ StartedAt(t, loads[t].index) # {}
       /\ SettledAt(t, loads[t].index) = {}
       /\ \A j \in 1..(loads[t].index - 1) : SettledAt(t, j) # {}
  /\ loads[t].pc = "done" =>
       \A i \in 1..loads[t].files :
         StartedAt(t, i) # {} /\ SettledAt(t, i) # {}

BatchesInOrder ==
  \A t \in 1..Len(loads) : loads[t].kind = "batch" => BatchInOrder(t)

\* C21: for one batch f1..fk given to handleFiles, the load of f(i+1) does
\* not start before the load of f(i) has finished and its result or error has
\* been delivered, the consumer callback is invoked in the order of the batch,
\* and a failure of f(i), a rejection or a result with errors, does not keep
\* the later files from being loaded and delivered: the batch reaches its end
\* with every file loaded.
C21_BatchIsSequential ==
  /\ []BatchesInOrder
  /\ \A t \in 1..MaxLoads :
       (Len(loads) >= t) ~> (Len(loads) >= t /\ loads[t].pc = "done")

\* C21 witness: a batch of two files has ended; the load of the first
\* rejected, the second was started after that error and its result was
\* delivered.
C21_Witness ==
  \E t \in 1..Len(loads) :
    /\ loads[t].kind = "batch"
    /\ loads[t].files = 2
    /\ loads[t].pc = "done"
    /\ \E p \in SettledAt(t, 1), q \in StartedAt(t, 2), r \in DeliveredAt(t, 2) :
         events[p].type = "error" /\ p < q /\ q < r

\* the events that hand a result to the consumer callback
Deliveries == {p \in 1..Len(events) : events[p].type = "deliver"}

\* the source of the first event was put in by the user before the source of
\* the second: an earlier load, or an earlier file of the same batch
StartedBefore(e, f) ==
  \/ e.load < f.load
  \/ e.load = f.load /\ e.file < f.file

\* the results delivered, in the order their sources were put in by the user
RECURSIVE InStartOrder(_)
InStartOrder(S) ==
  IF S = {} THEN <<>>
  ELSE LET p == CHOOSE x \in S :
                  \A y \in S \ {x} : StartedBefore(events[x], events[y])
       IN  <<events[p].locations>> \o InStartOrder(S \ {p})

RECURSIVE Concat(_)
Concat(ss) == IF ss = <<>> THEN <<>> ELSE ss[1] \o Concat(Tail(ss))

\* what currentData holds once results delivered in start order have all
\* gone through the consumer callback
SerializedData ==
  LET rs == InStartOrder(Deliveries)
  IN  IF uploadMode = "append" THEN Concat(rs)
      ELSE IF rs = <<>> THEN <<>> ELSE rs[Len(rs)]

AllLoadsDone ==
  loads # <<>> /\ \A t \in 1..Len(loads) : loads[t].pc = "done"

\* C29: loads started by separate user actions, a second batch dropped or a
\* URL load clicked while an earlier load is awaited, are serialized like the
\* files of one batch: their results reach the consumer callback in the order
\* the loads were started, so that once all loads have finished currentData
\* is, in replace mode, the locations of the load started last and, in append
\* mode, the concatenation of all results in start order.
C29_SeparateLoadsSerialized ==
  /\ \A p, q \in Deliveries :
       p < q => StartedBefore(events[p], events[q])
  /\ AllLoadsDone => currentData = SerializedData

\* the grid of a first call of calculateDensityGrid is at hand
GridReturned == op = "calculateDensityGrid" /\ result # NoResult

\* the location lies within the bounds, edges included
InBounds(location, bounds) ==
  /\ location.coordinates.lat.v >= bounds.south
  /\ location.coordinates.lat.v <= bounds.north
  /\ location.coordinates.lng.v >= bounds.west
  /\ location.coordinates.lng.v <= bounds.east

RECURSIVE CountSum(_)
CountSum(cells) ==
  IF cells = <<>> THEN 0 ELSE cells[1].count + CountSum(Tail(cells))

\* the positions of the locations that lie within the bounds of the grid
InsideGrid ==
  {k \in 1..Len(input.locations) : InBounds(input.locations[k], input.bounds)}

\* C22: calculateDensityGrid uses a total, non-overlapping boundary policy:
\* every in-bounds location is counted in exactly one cell, also when it lies
\* on an edge shared by two cells or on a corner shared by four, so that the
\* counts of the cells add up to the number of in-bounds locations, and N
\* identical in-bounds coordinates give exactly one cell, with count N.
\* Stated for the count method, under which no cell is left out for its value.
C22_EveryLocationInOneCell ==
  (GridReturned /\ AggregationMethod(input.config) = "count") =>
    /\ \A k \in InsideGrid :
         Cardinality({c \in 1..Len(result.first) :
                        InBounds(input.locations[k], result.first[c].bounds)}) = 1
    /\ CountSum(result.first) = Cardinality(InsideGrid)
    /\ (/\ InsideGrid # {}
        /\ \A k, l \in InsideGrid :
             input.locations[k].coordinates = input.locations[l].coordinates) =>
         /\ Len(result.first) = 1
         /\ result.first[1].count = Cardinality(InsideGrid)

\* Locations strictly inside a cell, and locations on the outer edge of the
\* bounds, are counted once: the counts add up when no location lies on an
\* edge between two cells.
CountsAddUpOffSharedEdges ==
  (/\ GridReturned
   /\ AggregationMethod(input.config) = "count"
   /\ \A k \in InsideGrid :
        input.locations[k].coordinates.lat.v \in {1, 40}) =>
    CountSum(result.first) = Cardinality(InsideGrid)

\* the sum of the intensities where only an absent intensity counts as 1
RECURSIVE StatedTotal(_)
StatedTotal(locations) ==
  IF locations = <<>> THEN Num(0)
  ELSE Plus(StatedTotal(Tail(locations)),
            IF locations[1].intensity = Undef THEN Num(1)
            ELSE locations[1].intensity)

StatedValue(locations, method) ==
  CASE method = "sum" -> StatedTotal(locations)
    [] method = "average" -> Divide(StatedTotal(locations), Num(Len(locations)))
    [] OTHER -> Num(Len(locations))

\* C23: the value of a cell is the aggregate of its locations under the
\* configured method: count gives their number; sum gives the sum of their
\* intensities where only an absent intensity counts as 1 (an intensity of 0
\* contributes 0); average gives that sum divided by the count; with no
\* method configured the value is the count.
C23_CellValueIsAggregate ==
  /\ (Called("calculateCellValue") /\ input.locations # <<>>) =>
       result.value = StatedValue(input.locations, input.method)
  /\ (GridReturned /\ input.config.aggregationMethod = "undef") =>
       \A c \in 1..Len(result.first) :
         result.first[c].value = Num(result.first[c].count)

\* With intensities that are absent or not zero the value is the stated
\* aggregate.
CellValueRightOffZero ==
  (/\ Called("calculateCellValue")
   /\ input.locations # <<>>
   /\ \A k \in 1..Len(input.locations) :
        input.locations[k].intensity # Num(0)) =>
    result.value = StatedValue(input.locations, input.method)

\* every cell of the grid, returned or not
AllCells ==
  GridCells(input.locations, input.bounds, GridSize(input.config),
            AggregationMethod(input.config))

\* C24: the grid returned is sparse and complete: a cell appears in it if and
\* only if it contains at least one input location, for every aggregation
\* method and every intensity, and every returned cell has count >= 1 and
\* value > 0.
C24_SparseAndComplete ==
  GridReturned =>
    /\ \A k \in 1..Len(AllCells) :
         (AllCells[k].count >= 1) <=>
           (\E c \in 1..Len(result.first) :
              result.first[c].bounds = AllCells[k].bounds)
    /\ \A c \in 1..Len(result.first) :
         result.first[c].count >= 1 /\ Positive(result.first[c].value)

\* A returned cell always has count >= 1 and value > 0, and under the count
\* method every cell with a location is returned.
SparseAndCompleteUnderCount ==
  GridReturned =>
    /\ \A c \in 1..Len(result.first) :
         result.first[c].count >= 1 /\ Positive(result.first[c].value)
    /\ AggregationMethod(input.config) = "count" =>
         \A k \in 1..Len(AllCells) :
           (AllCells[k].count >= 1) =>
             (\E c \in 1..Len(result.first) :
                result.first[c].bounds = AllCells[k].bounds)

Range(s) == {s[k] : k \in 1..Len(s)}

\* floor((value / maxValue) * (length - 1))
ScaledIndex(value, maxValue, length) ==
  Floor(Times(Divide(value, maxValue), length - 1))

\* a whole or infinite index clamped into [0, length - 1]
Clamped(index, length) ==
  CASE index.t = "inf" -> IF index.v = 1 THEN length - 1 ELSE 0
    [] index.v < 0 -> 0
    [] index.v > length - 1 -> length - 1
    [] OTHER -> index.v

\* C25: getColorForDensity(value, maxValue, colorScale) with a non-empty
\* colorScale always returns an element of colorScale: colorScale[0] when
\* maxValue is 0, and otherwise colorScale[k] for
\* k = floor((value / maxValue) * (length - 1)) clamped into [0, length - 1],
\* also when value > maxValue or value < 0.
C25_ColorIsElementOfScale ==
  (Called("getColorForDensity") /\ input.colorScale # <<>>) =>
    /\ result.value \in Range(input.colorScale)
    /\ input.maxValue = Num(0) => result.value = input.colorScale[1]
    /\ (/\ input.maxValue # Num(0)
        /\ ScaledIndex(input.value, input.maxValue,
                       Len(input.colorScale)) # NaN) =>
         result.value =
           input.colorScale[Clamped(ScaledIndex(input.value, input.maxValue,
                                                Len(input.colorScale)),
                                    Len(input.colorScale)) + 1]

\* For 0 <= value and 0 < maxValue, both finite, the colour is the stated
\* element of the scale.
ColorRightForValuesFromZero ==
  (/\ Called("getColorForDensity")
   /\ input.colorScale # <<>>
   /\ input.value.t \in {"num", "ratio"} /\ input.value.v >= 0
   /\ input.maxValue.t = "num" /\ input.maxValue.v > 0) =>
    result.value =
      input.colorScale[Clamped(ScaledIndex(input.value, input.maxValue,
                                           Len(input.colorScale)),
                               Len(input.colorScale)) + 1]

\* the step function of C26
StatedGridSize(n) ==
  CASE n < 10 -> 5
    [] 10 <= n /\ n < 50 -> 10
    [] 50 <= n /\ n < 200 -> 15
    [] 200 <= n /\ n < 500 -> 20
    [] n >= 500 -> 25

\* C26: calculateOptimalGridSize is a non-decreasing step function of the
\* number n of locations: 5 for n < 10, 10 for 10 <= n < 50, 15 for
\* 50 <= n < 200, 20 for 200 <= n < 500 and 25 for n >= 500.
C26_GridSizeIsStepFunction ==
  Called("calculateOptimalGridSize") =>
    /\ result.value = StatedGridSize(input)
    /\ \A m \in 0..input : calculateOptimalGridSize(m) <= result.value

\* C26 witness: a list of exactly 500 locations gets the largest grid.
C26_Witness ==
  /\ Called("calculateOptimalGridSize")
  /\ input = 500
  /\ result.value = 25

LinesRead == TrimmedLines(input.text)
RowsRead == {k \in 1..Len(LinesRead) : Trim(LinesRead[k]) # <<>>}

\* the column mapping in force
MappingRead ==
  IF input.options.columnMapping.t = "undef" THEN DefaultMapping
  ELSE input.options.columnMapping

\* the names synthesized for a text without header
SynthesizedNames ==
  {ColumnName(i) : i \in 0..(Len(Split(LinesRead[1], ",")) - 1)}

\* C28: in parseCSV hasHeader defaults to true, and then the first line only
\* names the columns and is not counted in totalRows; with hasHeader = false
\* the first line is parsed as a data row, totalRows is the number of lines,
\* and the columns are named column_0, column_1, ..., so that a row yields a
\* Location only when columnMapping.lat and columnMapping.lng name such
\* columns: with the default mapping lat/lng every row becomes an error.
C28_HeaderOrSynthesizedColumns ==
  (Called("parseCSV") /\ Len(LinesRead) > 0) =>
    /\ input.options.hasHeader # "false" =>
         /\ result.summary.totalRows = Len(LinesRead) - 1
         /\ \A e \in 1..Len(result.errors) : result.errors[e].n # 1
         /\ Len(result.locations) + Len(result.errors)
              = Cardinality(RowsRead \ {1})
    /\ input.options.hasHeader = "false" =>
         /\ result.summary.totalRows = Len(LinesRead)
         /\ Len(result.locations) + Len(result.errors) = Cardinality(RowsRead)
         /\ result.locations # <<>> =>
              /\ MappingRead.lat \in SynthesizedNames
              /\ MappingRead.lng \in SynthesizedNames
         /\ MappingRead = DefaultMapping =>
              /\ result.locations = <<>>
              /\ \A k \in RowsRead :
                   Cardinality({e \in 1..Len(result.errors) :
                                  result.errors[e].n = k}) = 1

\* C28 witness: a text without header whose first line is 10,20, read with
\* lat = column_0 and lng = column_1, gives a location for its first line.
C28_Witness ==
  /\ Called("parseCSV")
  /\ input.options.hasHeader = "false"
  /\ MappingRead.lat = ColumnName(0)
  /\ MappingRead.lng = ColumnName(1)
  /\ LinesRead[1] = <<"10", ",", "20">>
  /\ result.summary.totalRows = Len(LinesRead)
  /\ Len(result.locations) >= 1
  /\ result.locations[1].coordinates = [lat |-> Num(10), lng |-> Num(20)]

\* C30: in renderDensity, for any locations, bounds and density
\* configuration with a non-empty colorScale, the maxValue handed to
\* getColorForDensity is >= 1 and >= the value of every cell, so that every
\* rendered cell gets a fill colour that is an element of colorScale and the
\* guard for a maxValue of 0 is never taken.
C30_RenderedCellsGetScaleColours ==
  (Called("renderDensity") /\ result.colorScale # <<>>) =>
    /\ Leq(Num(1), result.maxValue)
    /\ result.maxValue # Num(0)
    /\ \A k \in 1..Len(result.rectangles) :
         /\ Leq(result.rectangles[k].value, result.maxValue)
         /\ result.rectangles[k].fillColor \in Range(result.colorScale)

\* When every intensity is finite, every rendered cell gets a colour of the
\* scale, and the maximum is >= 1 and >= every value whatever the
\* intensities.
RenderedColoursRightForFiniteIntensities ==
  Called("renderDensity") =>
    /\ Leq(Num(1), result.maxValue)
    /\ \A k \in 1..Len(result.rectangles) :
         Leq(result.rectangles[k].value, result.maxValue)
    /\ (\A l \in 1..Len(input.data) : input.data[l].intensity # PosInf) =>
         \A k \in 1..Len(result.rectangles) :
           result.rectangles[k].fillColor \in Range(result.colorScale)

====
